---- MODULE Spec2Model ----
(***************************************************************************)
(* CourseCompass data pipeline: the PDF extractor and batch                *)
(* (process_pdfs.py), the rating page scraper, the RateMyProfessor id      *)
(* merge, the fetch loop and the rating join (scrape_professor_ratings.py),*)
(* the cleaning step (clean_and_store_data.py) and the tasks and the       *)
(* standardization query of the DAG (app_data_pipeline.py).                *)
(*                                                                         *)
(* Text is a sequence of one-character strings, so that strip, TRIM,       *)
(* SPLIT_PART, str() and the numeric parsers are computed character by     *)
(* character.  Numbers are fixed-point integers counting 1/Unit.  An       *)
(* optional value is <<>> (None, NaN, NULL) or <<v>>.                      *)
(***************************************************************************)
EXTENDS Integers, Sequences, FiniteSets

VARIABLES
    APP_PROCESSED_PDFS,             \* table written by process_pdfs: sequence of fragments
    input_csv,                      \* @APP_STG/input.csv: <<>> when absent, else <<rows>>
    df,                             \* scrape_professor_ratings_table's frame after the merge
    RMP_ENRICHED_DATA,              \* table of STRING columns written by the scrape stage
    MY_WASHU_COURSES_WITH_RATINGS,  \* typed target table loaded by the cleaning step
    WASHU_COURSES_STANDARDIZED,     \* result of the standardization query (a set of rows)
    row_rank_1,                     \* indices of the source rows that got ROW_RANK = 1
    previous_standardized,          \* result of the run of the query before the last one
    restandardized,                 \* the query applied to its own result, <<>> before that
    std_runs,                       \* runs of the standardization query so far
    raised,                         \* an exception left the stage that ran last
    pc,                             \* the stage the run is at
    stage_files,                    \* the files LIST @APP_STG returns, in stage order
    returned,                       \* what process_pdfs_from_snowflake returned
    run,                            \* number of the DAG run
    enriched_exists,                \* the table RMP_ENRICHED_DATA exists
    csv_get_ok,                     \* the GET of input.csv worked in the last scrape stage
    to_fetch,                       \* the ids the fetch loop has still to visit
    ratings_by_id,                  \* the fetch loop's dictionary of rating_info
    fetch_log,                      \* the fetches and sleeps of the loop, in order
    response,                       \* what requests.get gave scrape_professor_rating
    rating_info,                    \* what scrape_professor_rating returned
    SIGNAL_TABLE,                   \* rows of SIGNAL_TABLE; TIMESTAMP is the run that inserted
    pokes,                          \* pokes of check_app_stg_signal in the run
    open_connections                \* stages that left their connection and cursor open

stage_vars == <<stage_files, returned, run>>
loop_vars == <<to_fetch, ratings_by_id, fetch_log>>
page_vars == <<response, rating_info>>
dag_vars == <<SIGNAL_TABLE, pokes>>

vars == <<APP_PROCESSED_PDFS, input_csv, df, RMP_ENRICHED_DATA,
          MY_WASHU_COURSES_WITH_RATINGS, WASHU_COURSES_STANDARDIZED, row_rank_1,
          previous_standardized, restandardized, std_runs, raised, pc,
          stage_vars, enriched_exists, csv_get_ok, loop_vars, page_vars,
          dag_vars, open_connections>>

(***************************************************************************)
(* Bounds of the model.                                                    *)
(***************************************************************************)
MaxDocs == 2
MaxCsv == 2
MaxRows == 2
MaxStdRuns == 2

\* Fixed-point unit: a number v stands for v / Unit.
Unit == 100 * 100

None == <<>>
Some(v) == <<v>>
IsNull(o) == o = <<>>
NotNull(o) == o # <<>>
Val(o) == o[1]

Range(s) == {s[i] : i \in 1..Len(s)}

(***************************************************************************)
(* Text helpers.                                                           *)
(***************************************************************************)
RECURSIVE LStrip(_)
LStrip(s) == IF s # <<>> /\ Head(s) = " " THEN LStrip(Tail(s)) ELSE s

RECURSIVE RStrip(_)
RStrip(s) ==
    IF s # <<>> /\ s[Len(s)] = " " THEN RStrip(SubSeq(s, 1, Len(s) - 1)) ELSE s

\* Python str.strip() restricted to the space character.
Strip(s) == RStrip(LStrip(s))

DigitChars == <<"0", "1", "2", "3", "4", "5", "6", "7", "8", "9">>
IsDigit(c) == \E d \in 1..10 : DigitChars[d] = c
DigitValue(c) == (CHOOSE d \in 1..10 : DigitChars[d] = c) - 1

RECURSIVE DigitsToNat(_)
DigitsToNat(s) ==
    IF s = <<>> THEN 0
    ELSE 10 * DigitsToNat(SubSeq(s, 1, Len(s) - 1)) + DigitValue(s[Len(s)])

RECURSIVE NatToDigits(_)
NatToDigits(n) ==
    IF n < 10 THEN <<DigitChars[n + 1]>>
    ELSE NatToDigits(n \div 10) \o <<DigitChars[(n % 10) + 1]>>

AllDigits(s) == \A i \in 1..Len(s) : IsDigit(s[i])

\* Position of the first "." of s, 0 when there is none.
DotAt(s) ==
    IF \E i \in 1..Len(s) : s[i] = "."
    THEN CHOOSE i \in 1..Len(s) : s[i] = "." /\ \A j \in 1..(i - 1) : s[j] # "."
    ELSE 0

\* The fraction digits frac (at most four are kept) as a count of 1/Unit.
FracValue(frac) ==
    LET f4 == SubSeq(frac \o <<"0", "0", "0", "0">>, 1, 4) IN DigitsToNat(f4)

\* An unsigned decimal literal: digits, optionally "." and digits.
IsUnsignedDecimal(s) ==
    LET d == DotAt(s) IN
    IF d = 0 THEN s # <<>> /\ AllDigits(s)
    ELSE /\ d > 1
         /\ AllDigits(SubSeq(s, 1, d - 1))
         /\ d < Len(s)
         /\ AllDigits(SubSeq(s, d + 1, Len(s)))

UnsignedValue(s) ==
    LET d == DotAt(s) IN
    IF d = 0 THEN DigitsToNat(s) * Unit
    ELSE DigitsToNat(SubSeq(s, 1, d - 1)) * Unit + FracValue(SubSeq(s, d + 1, Len(s)))

\* Parse of a decimal string to a float: None when the text is no number.
ParseFloat(s) ==
    LET t == Strip(s) IN
    IF t # <<>> /\ Head(t) = "-" /\ IsUnsignedDecimal(Tail(t))
        THEN Some(0 - UnsignedValue(Tail(t)))
    ELSE IF IsUnsignedDecimal(t) THEN Some(UnsignedValue(t))
    ELSE None

RECURSIVE DropTrailingZeros(_)
DropTrailingZeros(s) ==
    IF Len(s) > 1 /\ s[Len(s)] = "0"
    THEN DropTrailingZeros(SubSeq(s, 1, Len(s) - 1)) ELSE s

\* Python str(float) for a non-negative value: "4.5", "4.0".
FloatToStr(v) ==
    LET frac == NatToDigits(Unit + (v % Unit)) IN
    NatToDigits(v \div Unit) \o <<".">> \o DropTrailingZeros(Tail(frac))

(***************************************************************************)
(* Texts that occur in the modelled data.                                  *)
(***************************************************************************)
T_CS101 == <<"C", "S", "1", "0", "1">>
T_CS101_padded == <<" ", "C", "S", "1", "0", "1", " ">>
T_cs101 == <<"c", "s", "1", "0", "1">>
T_EE202 == <<"E", "E", "2", "0", "2">>
T_Unknown == <<"U", "n", "k", "n", "o", "w", "n">>
T_Intro == <<"I", "n", "t", "r", "o">>
T_JaneADoe == <<"J", "a", "n", "e", " ", "A", " ", "D", "o", "e">>
T_Doe == <<"D", "o", "e">>
T_Roe == <<"R", "o", "e">>
T_SP2025 == <<"S", "P", " ", "2", "0", "2", "5">>
T_Section1 == <<"1">>
T_helpful == <<"h", "e", "l", "p", "f", "u", "l">>
T_nan == <<"n", "a", "n">>
T_NA == <<"N", "/", "A">>
T_3_9 == <<"3", ".", "9">>
T_2_1 == <<"2", ".", "1">>
T_4_5 == <<"4", ".", "5">>
T_75 == <<"7", "5">>
T_82 == <<"8", "2">>
T_0_82 == <<"0", ".", "8", "2">>
T_100 == <<"1", "0", "0">>
T_150 == <<"1", "5", "0">>
T_minus5 == <<"-", "5">>
T_1_5 == <<"1", ".", "5">>

FileName(i) == <<"f">> \o NatToDigits(i)

(***************************************************************************)
(* The Snowflake connection and cursor of a stage.                         *)
(***************************************************************************)
\* The stages whose function closes cursor and connection in a finally
\* clause: process_pdfs_from_snowflake and clean_and_store_data.
ClosesInFinally == {"process_pdfs", "load_enriched_data"}

\* scrape_professor_ratings_table has no finally clause: cursor.close() and
\* conn.close() stand before each return statement and at the end of the body.
ClosesBeforeExit(stage, exit) == stage = "scrape_rmp" /\ exit = "return"

\* snowflake.connector.connect and conn.cursor() at the start of a stage.
Connected(open, stage) == open \cup {stage}

\* The stages with an open connection after `stage`, which had connected,
\* is left by a return or by an exception.
AfterExit(open, stage, exit) ==
    IF stage \in ClosesInFinally \/ ClosesBeforeExit(stage, exit)
    THEN Connected(open, stage) \ {stage}
    ELSE Connected(open, stage)

(***************************************************************************)
(* scrape_professor_ratings.py                                             *)
(***************************************************************************)

\* The rows of input.csv even when the GET or the read of the file failed.
load_input_csv_despite_failure(stage_csv, get_ok) ==
    IF NotNull(stage_csv) THEN Val(stage_csv) ELSE <<>>

\* load_input_csv_from_stage: the rows of input.csv, or an empty frame when the
\* GET fails or the file is not in the stage.
load_input_csv_from_stage(stage_csv, get_ok) ==
    IF get_ok /\ NotNull(stage_csv) THEN Val(stage_csv) ELSE <<>>

\* df['course_code'].astype(str).str.strip() on either frame.
StripCourseCodes(frame) ==
    [i \in 1..Len(frame) |-> [frame[i] EXCEPT !.course_code = Strip(@)]]

\* A merge that keeps only the first matching right row for a left row.
MergeRow_first_match_only(row, csv_df) ==
    LET Matches(c) == c.course_code = row.course_code
        hits == SelectSeq(csv_df, Matches)
    IN  <<[row |-> row, rmp_id_csv |-> IF hits = <<>> THEN None ELSE hits[1].rmp_id]>>

\* The rows pd.merge(df, csv_df[['course_code', 'rmp_id']], on='course_code',
\* how='left', suffixes=("", "_csv")) gives for one left row: one per matching
\* right row, in the right frame's order, or one with a null rmp_id_csv.
MergeRow(row, csv_df) ==
    LET Matches(c) == c.course_code = row.course_code
        hits == SelectSeq(csv_df, Matches)
    IN  IF hits = <<>>
        THEN <<[row |-> row, rmp_id_csv |-> None]>>
        ELSE [k \in 1..Len(hits) |-> [row |-> row, rmp_id_csv |-> hits[k].rmp_id]]

RECURSIVE MergeLeft(_, _)
MergeLeft(frame, csv_df) ==
    IF frame = <<>> THEN <<>>
    ELSE MergeRow(Head(frame), csv_df) \o MergeLeft(Tail(frame), csv_df)

\* Series.combine_first: the caller's value where it is not null, else other's.
combine_first(self, other) == IF NotNull(self) THEN self ELSE other

\* df['rmp_id'] = df['rmp_id_csv'].combine_first(df.get('rmp_id')), then the
\* rmp_id_csv column is dropped.
CombineIds(merged) ==
    [i \in 1..Len(merged) |->
        [merged[i].row EXCEPT
            !.rmp_id = combine_first(merged[i].rmp_id_csv, merged[i].row.rmp_id)]]

\* Lines 123-137: the frame after the merge with input.csv.
MergeWithCsv(frame, csv_df) ==
    IF csv_df = <<>> THEN frame
    ELSE CombineIds(MergeLeft(StripCourseCodes(frame), StripCourseCodes(csv_df)))

\* str(int(float(rmp_id))).strip()
rmp_id_clean(id) == Strip(NatToDigits(id))

\* df['rmp_id'].dropna().unique()
unique_ids(frame) == {Val(frame[i].rmp_id) : i \in {j \in 1..Len(frame) : NotNull(frame[j].rmp_id)}}

RECURSIVE JoinTags(_)
JoinTags(tags) ==
    IF tags = <<>> THEN <<>>
    ELSE IF Len(tags) = 1 THEN Head(tags)
    ELSE Head(tags) \o <<",">> \o JoinTags(Tail(tags))

\* A join that gives a row with an id the rating_info of some fetched id.
JoinRatings_of_any_id(row, ratings) ==
    LET blank == [filename |-> row.filename, professor |-> row.professor,
                  semester |-> row.semester, course_code |-> row.course_code,
                  section |-> row.section, course_name |-> row.course_name,
                  overall_rating |-> row.overall_rating, rmp_id |-> row.rmp_id,
                  scraped_overall_rating |-> None, would_take_again |-> None,
                  difficulty |-> None, tags |-> None]
    IN  IF NotNull(row.rmp_id) /\ DOMAIN ratings # {}
        THEN LET info == ratings[CHOOSE key \in DOMAIN ratings : TRUE] IN
             [blank EXCEPT !.scraped_overall_rating = info.scraped_overall_rating,
                           !.would_take_again = info.would_take_again,
                           !.difficulty = info.difficulty,
                           !.tags = Some(JoinTags(info.tags))]
        ELSE blank

\* Lines 147-150 and 168-179: the four scraped columns of one row, from
\* ratings_by_id (a function from cleaned id texts to rating_info).
JoinRatings(row, ratings) ==
    LET blank == [filename |-> row.filename, professor |-> row.professor,
                  semester |-> row.semester, course_code |-> row.course_code,
                  section |-> row.section, course_name |-> row.course_name,
                  overall_rating |-> row.overall_rating, rmp_id |-> row.rmp_id,
                  scraped_overall_rating |-> None, would_take_again |-> None,
                  difficulty |-> None, tags |-> None]
    IN  IF NotNull(row.rmp_id) /\ rmp_id_clean(Val(row.rmp_id)) \in DOMAIN ratings
        THEN LET info == ratings[rmp_id_clean(Val(row.rmp_id))] IN
             [blank EXCEPT !.scraped_overall_rating = info.scraped_overall_rating,
                           !.would_take_again = info.would_take_again,
                           !.difficulty = info.difficulty,
                           !.tags = Some(JoinTags(info.tags))]
        ELSE blank

\* clean_cell on a text cell: None stays None, "nan" in any case of the model's
\* texts becomes None, other text is stripped.
clean_cell(x) ==
    IF IsNull(x) THEN None
    ELSE IF Strip(Val(x)) = T_nan THEN None
    ELSE Some(Strip(Val(x)))

\* clean_cell on a float cell: str(x).
clean_float_cell(x) == IF IsNull(x) THEN None ELSE Some(FloatToStr(Val(x)))

\* df.applymap(clean_cell): every cell becomes text or None.  The RMP_ID cell
\* is kept as the integer its text denotes.
CleanRow(r) ==
    [FILENAME |-> clean_cell(Some(r.filename)),
     PROFESSOR |-> clean_cell(Some(r.professor)),
     SEMESTER |-> clean_cell(Some(r.semester)),
     COURSE_CODE |-> clean_cell(Some(r.course_code)),
     SECTION |-> clean_cell(Some(r.section)),
     COURSE_NAME |-> clean_cell(Some(r.course_name)),
     OVERALL_RATING |-> clean_float_cell(r.overall_rating),
     RMP_ID |-> r.rmp_id,
     SCRAPED_OVERALL_RATING |-> clean_cell(r.scraped_overall_rating),
     WOULD_TAKE_AGAIN |-> clean_cell(r.would_take_again),
     DIFFICULTY |-> clean_cell(r.difficulty),
     TAGS |-> clean_cell(r.tags)]

\* str.lower() on one character.
UpperCase == <<"A", "B", "C", "D", "E", "F", "G", "H", "I", "J", "K", "L", "M",
               "N", "O", "P", "Q", "R", "S", "T", "U", "V", "W", "X", "Y", "Z">>
LowerCase == <<"a", "b", "c", "d", "e", "f", "g", "h", "i", "j", "k", "l", "m",
               "n", "o", "p", "q", "r", "s", "t", "u", "v", "w", "x", "y", "z">>
LowerChar(c) ==
    IF \E k \in 1..26 : UpperCase[k] = c
    THEN LowerCase[CHOOSE k \in 1..26 : UpperCase[k] = c]
    ELSE c
Lower(s) == [k \in 1..Len(s) |-> LowerChar(s[k])]

\* Dropping only a '%' that ends the text.
RemovePercent_suffix_only(s) ==
    IF s # <<>> /\ s[Len(s)] = "%" THEN SubSeq(s, 1, Len(s) - 1) ELSE s

\* would_take_again.replace('%', '') when '%' is in the text.
RemovePercent(s) == LET NotPercent(c) == c # "%" IN SelectSeq(s, NotPercent)

\* The nodes soup.find and soup.find_all look for, in document order, by the
\* text of each: the RatingValue__Numerator divs, the
\* FeedbackItem__FeedbackNumber divs and the Tag spans.
Page(ratings, feedback, tags) ==
    [rating_nodes |-> ratings, feedback_nodes |-> feedback, tag_nodes |-> tags]

NoPage == Page(<<>>, <<>>, <<>>)

\* What requests.get and the parser do for one request: kind "exception"
\* (requests.get raises), "unparsable" (the reply arrives and parsing it
\* raises) or "page" (the reply arrives and parses), with the status code.
Reply(kind, status, page) == [kind |-> kind, status |-> status, page |-> page]

\* scrape_professor_rating returning its initial rating_info whatever the
\* status of the reply.
scrape_professor_rating_any_status(rmp_id, reply) ==
    IF IsNull(rmp_id) \/ Val(rmp_id) = <<>> THEN None
    ELSE IF reply.kind # "page" THEN None
    ELSE Some([rmp_id |-> Val(rmp_id),
               scraped_overall_rating |-> None, would_take_again |-> None,
               difficulty |-> None, tags |-> {}])

\* Lines 13-71: None for a missing id, a raised exception or a status other
\* than 200, else the rating_info read from the page.  tags is the set the
\* code builds (empty for the initial list).
scrape_professor_rating(rmp_id, reply) ==
    IF IsNull(rmp_id) \/ Val(rmp_id) = <<>> THEN None
    ELSE IF reply.kind = "exception" THEN None
    ELSE IF reply.status # 200 THEN None
    ELSE IF reply.kind = "unparsable" THEN None
    ELSE LET page == reply.page
             two == Len(page.feedback_nodes) >= 2
         IN  Some([rmp_id |-> Val(rmp_id),
                   scraped_overall_rating |->
                       IF page.rating_nodes # <<>>
                       THEN Some(Strip(page.rating_nodes[1])) ELSE None,
                   would_take_again |->
                       IF two THEN Some(RemovePercent(Strip(page.feedback_nodes[1])))
                       ELSE None,
                   difficulty |->
                       IF two THEN Some(Strip(page.feedback_nodes[2])) ELSE None,
                   tags |-> {Strip(Lower(page.tag_nodes[k])) :
                                k \in 1..Len(page.tag_nodes)}])

\* The orders in which ','.join can go through a set of tags.
TagOrders(tags) ==
    {order \in [1..Cardinality(tags) -> tags] : Range(order) = tags}

\* The rating_info with its tags in the order the join will read them.
WithTagOrder(info) ==
    IF IsNull(info) THEN {None}
    ELSE {Some([Val(info) EXCEPT !.tags = order]) : order \in TagOrders(Val(info).tags)}

T_3_9_padded == <<" ", "3", ".", "9", " ">>
T_75_percent == <<"7", "5", "%">>
T_Helpful == <<"H", "e", "l", "p", "f", "u", "l", " ">>

RatingPage == Page(<<T_3_9_padded>>, <<T_75_percent, T_2_1>>, <<T_Helpful, T_helpful>>)

\* The replies the pipeline's fetches get.
Replies ==
    {Reply("exception", 0, NoPage), Reply("page", 404, RatingPage),
     Reply("page", 200, RatingPage), Reply("page", 200, NoPage)}

\* scrape_professor_rating(rmp_id_clean) for an id of the frame: None or a
\* rating_info.
FetchOutcomes(id) ==
    UNION {WithTagOrder(scrape_professor_rating(Some(rmp_id_clean(id)), reply)) :
              reply \in Replies}

\* ratings_by_id after the fetch loop: only the ids whose fetch gave a fragment.
RatingsById(fetched) ==
    LET ok == {id \in DOMAIN fetched : NotNull(fetched[id])} IN
    [t \in {rmp_id_clean(id) : id \in ok} |->
        Val(fetched[CHOOSE id \in ok : rmp_id_clean(id) = t])]

\* What the fetch loop can get for a set of ids: an outcome for each.
Fetched(ids) ==
    {f \in [ids -> UNION {FetchOutcomes(id) : id \in ids}] :
        \A id \in ids : f[id] \in FetchOutcomes(id)}

\* The whole stage: load, merge, early return or fetch loop, join, clean, write.
scrape_professor_ratings_table ==
    /\ pc = "scrape_rmp"
    /\ \E get_ok \in BOOLEAN :
        LET merged == IF APP_PROCESSED_PDFS = <<>> THEN <<>>
                      ELSE MergeWithCsv(APP_PROCESSED_PDFS,
                                        load_input_csv_from_stage(input_csv, get_ok))
        IN  /\ df' = merged
            /\ csv_get_ok' = get_ok
            /\ IF unique_ids(merged) = {}
               THEN UNCHANGED <<RMP_ENRICHED_DATA, enriched_exists>>
               ELSE \E fetched \in Fetched(unique_ids(merged)) :
                      /\ RMP_ENRICHED_DATA' =
                            [i \in 1..Len(merged) |->
                                CleanRow(JoinRatings(merged[i], RatingsById(fetched)))]
                      /\ enriched_exists' = TRUE
    /\ raised' = FALSE
    /\ pc' = "create_target_table"
    /\ UNCHANGED <<APP_PROCESSED_PDFS, input_csv, MY_WASHU_COURSES_WITH_RATINGS,
                   WASHU_COURSES_STANDARDIZED, row_rank_1, previous_standardized,
                   restandardized, std_runs>>
    /\ UNCHANGED <<stage_vars, loop_vars, page_vars>>
    /\ open_connections' = AfterExit(open_connections, "scrape_rmp", "return")
    /\ UNCHANGED dag_vars

(***************************************************************************)
(* The merge stage on its own: any processed-PDF table of at most MaxDocs  *)
(* fragments and any input.csv of at most MaxCsv rows.                     *)
(***************************************************************************)
SeqsUpTo(S, n) == UNION {[1..k -> S] : k \in 0..n}

\* Ids as the extractor and input.csv carry them.
FragmentIds == {None, Some(1)}
CsvIds == {None, Some(2)}

\* A fragment as extract_course_info_from_bytes returns it and process_pdfs
\* stores it; the filename is that of the i-th staged file.
Fragment(i, code, id) ==
    [filename |-> FileName(i), professor |-> T_Doe, semester |-> T_SP2025,
     course_code |-> code, section |-> T_Section1, course_name |-> T_Intro,
     overall_rating |-> Some(45 * 1000), rmp_id |-> id]

FragmentChoices == {T_CS101, T_EE202} \X FragmentIds

ProcessedTables ==
    {[i \in 1..Len(c) |-> Fragment(i, c[i][1], c[i][2])] :
        c \in SeqsUpTo(FragmentChoices, MaxDocs)}

CsvRows ==
    [course_code : {T_CS101, T_CS101_padded, T_cs101}, rmp_id : CsvIds]

StageCsvs == {None} \cup {Some(rows) : rows \in SeqsUpTo(CsvRows, MaxCsv)}

InitMerge ==
    /\ APP_PROCESSED_PDFS \in ProcessedTables
    /\ input_csv \in StageCsvs
    /\ df = <<>>
    /\ RMP_ENRICHED_DATA = <<>>
    /\ MY_WASHU_COURSES_WITH_RATINGS = <<>>
    /\ WASHU_COURSES_STANDARDIZED = {}
    /\ row_rank_1 = {}
    /\ previous_standardized = {}
    /\ restandardized = None
    /\ std_runs = 0
    /\ raised = FALSE
    /\ pc = "scrape_rmp"
    /\ stage_files = <<>>
    /\ returned = <<>>
    /\ run = 1
    /\ enriched_exists = FALSE
    /\ csv_get_ok = TRUE
    /\ to_fetch = <<>>
    /\ ratings_by_id = <<>>
    /\ fetch_log = <<>>
    /\ response = None
    /\ rating_info = None
    /\ SIGNAL_TABLE = {}
    /\ pokes = 0
    /\ open_connections = {}

NextMerge == scrape_professor_ratings_table

SpecMerge == InitMerge /\ [][NextMerge]_vars

\* The fragment of the processed table a merged row comes from.
FragmentOf(row) ==
    CHOOSE f \in Range(APP_PROCESSED_PDFS) : f.filename = row.filename

MergeDone == pc = "create_target_table"

(* C1: in the merge, every fragment whose own extracted rmp_id is non-null
   keeps that id in the merged frame, whatever input.csv holds for its
   course code. *)
C1_ExtractedIdWins ==
    MergeDone =>
        \A i \in 1..Len(df) :
            NotNull(FragmentOf(df[i]).rmp_id) => df[i].rmp_id = FragmentOf(df[i]).rmp_id

(***************************************************************************)
(* clean_and_store_data.py                                                 *)
(***************************************************************************)

\* df.replace([np.nan, 'NAN', 'nan', 'NaN', '', None], None) on a text cell;
\* of the listed texts the model's data holds 'nan' and ''.
replace_null_like(x) ==
    IF IsNull(x) THEN None
    ELSE IF Val(x) = <<>> \/ Val(x) = T_nan THEN None
    ELSE x

\* pd.to_numeric(column, errors="coerce") on a text cell.
to_numeric(x) == IF IsNull(x) THEN None ELSE ParseFloat(Val(x))

\* The lambda of line 51: x / 100 if pd.notna(x) and x > 1 else x.
percent_to_fraction(x) ==
    IF NotNull(x) /\ Val(x) > Unit THEN Some(Val(x) \div 100) ELSE x

\* Lines 36-51 on one row.  A column is converted only if the frame has a
\* column of exactly that name; the frame's columns are those of the input
\* table, so "RMP_RATING" and "WOULD TAKE AGAIN" are looked up as written.
\* A converted cell is [num |-> optional number], any other [text |-> cell].
CleanedRow(row) ==
    LET columns == DOMAIN row
        replaced == [c \in columns |->
                        IF c = "RMP_ID" THEN row[c] ELSE replace_null_like(row[c])]
        converted == {"OVERALL_RATING", "RMP_RATING", "DIFFICULTY", "WOULD TAKE AGAIN"}
                        \cap columns
    IN  [c \in columns |->
            IF c = "RMP_ID" THEN [int |-> replaced[c]]
            ELSE IF c \in converted
                 THEN [num |-> IF c = "WOULD TAKE AGAIN"
                               THEN percent_to_fraction(to_numeric(replaced[c]))
                               ELSE to_numeric(replaced[c])]
                 ELSE [text |-> replaced[c]]]

\* The FLOAT columns of MY_WASHU_COURSES_WITH_RATINGS (create_target_table).
FloatColumns == {"OVERALL_RATING", "SCRAPED_OVERALL_RATING", "WOULD_TAKE_AGAIN", "DIFFICULTY"}

IsText(cell) == "text" \in DOMAIN cell
IsNum(cell) == "num" \in DOMAIN cell

\* write_pandas loads a cleaned cell into a FLOAT column: a number as it is, a
\* text by the warehouse's conversion, which rejects a text that is no number.
FloatLoadable(cell) ==
    IsText(cell) /\ NotNull(cell.text) => NotNull(ParseFloat(Val(cell.text)))

FloatLoaded(cell) ==
    IF IsNum(cell) THEN cell.num
    ELSE IF IsNull(cell.text) THEN None
    ELSE ParseFloat(Val(cell.text))

RowLoadable(crow) == \A c \in FloatColumns \cap DOMAIN crow : FloatLoadable(crow[c])

\* The row of the target table a cleaned row is loaded as.
LoadedRow(crow) ==
    [FILENAME |-> crow.FILENAME.text, PROFESSOR |-> crow.PROFESSOR.text,
     SEMESTER |-> crow.SEMESTER.text, COURSE_CODE |-> crow.COURSE_CODE.text,
     SECTION |-> crow.SECTION.text, COURSE_NAME |-> crow.COURSE_NAME.text,
     OVERALL_RATING |-> FloatLoaded(crow.OVERALL_RATING),
     RMP_ID |-> crow.RMP_ID.int,
     SCRAPED_OVERALL_RATING |-> FloatLoaded(crow.SCRAPED_OVERALL_RATING),
     WOULD_TAKE_AGAIN |-> FloatLoaded(crow.WOULD_TAKE_AGAIN),
     DIFFICULTY |-> FloatLoaded(crow.DIFFICULTY),
     TAGS |-> crow.TAGS.text]

\* Task create_target_table: CREATE OR REPLACE TABLE MY_WASHU_COURSES_WITH_RATINGS.
create_target_table ==
    /\ pc = "create_target_table"
    /\ MY_WASHU_COURSES_WITH_RATINGS' = <<>>
    /\ raised' = FALSE
    /\ pc' = "load_enriched_data"
    /\ UNCHANGED <<APP_PROCESSED_PDFS, input_csv, df, RMP_ENRICHED_DATA,
                   WASHU_COURSES_STANDARDIZED, row_rank_1, previous_standardized,
                   restandardized, std_runs>>
    /\ UNCHANGED <<stage_vars, enriched_exists, csv_get_ok, loop_vars, page_vars>>
    /\ UNCHANGED <<dag_vars, open_connections>>

\* Task load_enriched_data: clean_and_store_data("RMP_ENRICHED_DATA",
\* "MY_WASHU_COURSES_WITH_RATINGS").  The SELECT raises when the input table
\* does not exist; an empty input returns early; a cell the FLOAT column
\* rejects makes write_pandas raise, and nothing is loaded.
clean_and_store_data ==
    /\ pc = "load_enriched_data"
    /\ LET cleaned == [i \in 1..Len(RMP_ENRICHED_DATA) |-> CleanedRow(RMP_ENRICHED_DATA[i])]
           loadable == \A i \in 1..Len(cleaned) : RowLoadable(cleaned[i])
       IN  IF enriched_exists /\ loadable
           THEN /\ MY_WASHU_COURSES_WITH_RATINGS' =
                      MY_WASHU_COURSES_WITH_RATINGS \o
                          [i \in 1..Len(cleaned) |-> LoadedRow(cleaned[i])]
                /\ raised' = FALSE
                /\ pc' = "run_standardization"
           ELSE /\ UNCHANGED MY_WASHU_COURSES_WITH_RATINGS
                /\ raised' = TRUE
                /\ pc' = "failed"
    /\ UNCHANGED <<APP_PROCESSED_PDFS, input_csv, df, RMP_ENRICHED_DATA,
                   WASHU_COURSES_STANDARDIZED, row_rank_1, previous_standardized,
                   restandardized, std_runs>>
    /\ UNCHANGED <<stage_vars, enriched_exists, csv_get_ok, loop_vars, page_vars>>
    /\ open_connections' =
          AfterExit(open_connections, "load_enriched_data",
                    IF pc' = "failed" THEN "raise" ELSE "return")
    /\ UNCHANGED dag_vars

(***************************************************************************)
(* app_data_pipeline.py: standardization_sql                               *)
(***************************************************************************)

\* TRIM(x): leading and trailing spaces removed, NULL for NULL.
TRIM(x) == IF IsNull(x) THEN None ELSE Some(Strip(Val(x)))

\* The parts of text s between occurrences of the one-character delimiter.
RECURSIVE SplitOn(_, _)
SplitOn(s, delim) ==
    IF \E i \in 1..Len(s) : s[i] = delim
    THEN LET at == CHOOSE i \in 1..Len(s) :
                      s[i] = delim /\ \A j \in 1..(i - 1) : s[j] # delim
         IN  <<SubSeq(s, 1, at - 1)>> \o SplitOn(SubSeq(s, at + 1, Len(s)), delim)
    ELSE <<s>>

\* SPLIT_PART with the part counted from the front whatever the sign of n.
SPLIT_PART_from_front(x, delim, n) ==
    IF IsNull(x) THEN None
    ELSE LET parts == SplitOn(Val(x), delim)
             at == IF n < 0 THEN 0 - n ELSE IF n = 0 THEN 1 ELSE n
         IN  IF at \in 1..Len(parts) THEN Some(parts[at]) ELSE Some(<<>>)

\* SPLIT_PART(x, delim, n): the n-th part, counted from the end for negative n;
\* the empty text when there is no such part, NULL for NULL.
SPLIT_PART(x, delim, n) ==
    IF IsNull(x) THEN None
    ELSE LET parts == SplitOn(Val(x), delim)
             at == IF n < 0 THEN Len(parts) + 1 + n ELSE IF n = 0 THEN 1 ELSE n
         IN  IF at \in 1..Len(parts) THEN Some(parts[at]) ELSE Some(<<>>)

\* TO_NUMBER(x) with neither precision nor scale is NUMBER(38, 0): the value
\* rounded to an integer, halves away from zero; NULL for NULL.
TO_NUMBER(x) ==
    IF IsNull(x) THEN None
    ELSE IF Val(x) >= 0 THEN Some(((Val(x) + (Unit \div 2)) \div Unit) * Unit)
    ELSE Some(0 - ((((0 - Val(x)) + (Unit \div 2)) \div Unit) * Unit))

\* The percentage rule dividing by 10 instead of 100.
WOULD_TAKE_AGAIN_NUM_by_ten(x) ==
    IF NotNull(TO_NUMBER(x)) /\ Val(TO_NUMBER(x)) > Unit
    THEN Some(Val(TO_NUMBER(x)) \div 10)
    ELSE TO_NUMBER(x)

\* CASE WHEN TO_NUMBER(WOULD_TAKE_AGAIN) > 1 THEN TO_NUMBER(WOULD_TAKE_AGAIN)/100
\*      ELSE TO_NUMBER(WOULD_TAKE_AGAIN) END
WOULD_TAKE_AGAIN_NUM(x) ==
    IF NotNull(TO_NUMBER(x)) /\ Val(TO_NUMBER(x)) > Unit
    THEN Some(Val(TO_NUMBER(x)) \div 100)
    ELSE TO_NUMBER(x)

\* CASE WHEN SCRAPED_OVERALL_RATING_NUM IS NOT NULL
\*      THEN (SCRAPED_OVERALL_RATING_NUM - 1) * (6/4) + 1 ELSE NULL END
NORMALIZED_RMP_RATING(x) ==
    IF NotNull(x) THEN Some((((Val(x) - Unit) * 6) \div 4) + Unit) ELSE None

\* PARTITION BY SPLIT_PART(TRIM(PROFESSOR), ' ', -1), TRIM(COURSE_CODE),
\*              TRIM(SEMESTER), TRIM(SECTION)
PartitionKey(r) ==
    <<SPLIT_PART(TRIM(r.PROFESSOR), " ", -1), TRIM(r.COURSE_CODE),
      TRIM(r.SEMESTER), TRIM(r.SECTION)>>

\* The first ORDER BY term with its two branches exchanged.
OverallRatingRank_inverted(r) == IF NotNull(TO_NUMBER(r.OVERALL_RATING)) THEN 1 ELSE 0

\* The second ORDER BY term reading the in-document rating again.
ScrapedRatingRank_wrong_column(r) == IF NotNull(TO_NUMBER(r.OVERALL_RATING)) THEN 0 ELSE 1

\* The three ORDER BY terms of the window, each 0 or 1.
OverallRatingRank(r) == IF NotNull(TO_NUMBER(r.OVERALL_RATING)) THEN 0 ELSE 1
ScrapedRatingRank(r) == IF NotNull(TO_NUMBER(r.SCRAPED_OVERALL_RATING)) THEN 0 ELSE 1
CourseNameRank(r) == IF NotNull(TRIM(r.COURSE_NAME)) THEN 0 ELSE 1

OrderKey(r) == <<OverallRatingRank(r), ScrapedRatingRank(r), CourseNameRank(r)>>

\* Lexicographic "sorts no later than" on order keys.
KeyLeq(a, b) ==
    \/ a[1] < b[1]
    \/ a[1] = b[1] /\ a[2] < b[2]
    \/ a[1] = b[1] /\ a[2] = b[2] /\ a[3] <= b[3]

\* The rows of `table` that may get ROW_NUMBER() = 1 in the partition of row i:
\* those no row of the partition sorts strictly before.  ROW_NUMBER() numbers
\* rows with equal ORDER BY terms in an order the query does not determine.
FirstInPartition(table, i) ==
    {j \in 1..Len(table) :
        /\ PartitionKey(table[j]) = PartitionKey(table[i])
        /\ \A k \in 1..Len(table) :
              PartitionKey(table[k]) = PartitionKey(table[i])
                  => KeyLeq(OrderKey(table[j]), OrderKey(table[k]))}

\* Every set of rows the WHERE ROW_RANK = 1 filter can keep: one row of each
\* partition, taken among its first ones.
RowRankOne(table) ==
    {kept \in SUBSET (1..Len(table)) :
        /\ \A i \in 1..Len(table) :
              \E j \in kept : j \in FirstInPartition(table, i)
        /\ \A j \in kept : j \in FirstInPartition(table, j)
        /\ \A j, k \in kept :
              PartitionKey(table[j]) = PartitionKey(table[k]) => j = k}

\* The SELECT list over normalized_data for one source row.
StandardizedRow(r) ==
    [PROFESSOR_NAME |-> SPLIT_PART(TRIM(r.PROFESSOR), " ", -1),
     FULL_PROFESSOR_NAME |-> TRIM(r.PROFESSOR),
     COURSE_CODE |-> TRIM(r.COURSE_CODE),
     COURSE_NAME |-> TRIM(r.COURSE_NAME),
     SEMESTER |-> TRIM(r.SEMESTER),
     SECTION |-> TRIM(r.SECTION),
     RMP_ID |-> r.RMP_ID,
     OVERALL_RATING |-> TO_NUMBER(r.OVERALL_RATING),
     SCRAPED_OVERALL_RATING |-> TO_NUMBER(r.SCRAPED_OVERALL_RATING),
     WOULD_TAKE_AGAIN |-> WOULD_TAKE_AGAIN_NUM(r.WOULD_TAKE_AGAIN),
     DIFFICULTY |-> TO_NUMBER(r.DIFFICULTY),
     TAGS |-> TRIM(r.TAGS),
     NORMALIZED_RMP_RATING |-> NORMALIZED_RMP_RATING(TO_NUMBER(r.SCRAPED_OVERALL_RATING))]

\* The table the query creates when the rows `kept` got ROW_RANK = 1.
standardization_sql(table, kept) == {StandardizedRow(table[j]) : j \in kept}

\* Task run_standardization.
run_standardization ==
    /\ pc = "run_standardization"
    /\ \E kept \in RowRankOne(MY_WASHU_COURSES_WITH_RATINGS) :
        /\ row_rank_1' = kept
        /\ WASHU_COURSES_STANDARDIZED' =
              standardization_sql(MY_WASHU_COURSES_WITH_RATINGS, kept)
    /\ previous_standardized' = WASHU_COURSES_STANDARDIZED
    /\ std_runs' = std_runs + 1
    /\ raised' = FALSE
    /\ pc' = "insert_signal_final"
    /\ UNCHANGED <<APP_PROCESSED_PDFS, input_csv, df, RMP_ENRICHED_DATA,
                   MY_WASHU_COURSES_WITH_RATINGS, restandardized>>
    /\ UNCHANGED <<stage_vars, enriched_exists, csv_get_ok, loop_vars, page_vars>>
    /\ UNCHANGED <<dag_vars, open_connections>>

\* The query run once more on the unchanged source table (a second run of the
\* task over the same MY_WASHU_COURSES_WITH_RATINGS).
rerun_standardization ==
    /\ pc = "insert_signal_final"
    /\ std_runs < MaxStdRuns
    /\ restandardized = None
    /\ \E kept \in RowRankOne(MY_WASHU_COURSES_WITH_RATINGS) :
        /\ row_rank_1' = kept
        /\ WASHU_COURSES_STANDARDIZED' =
              standardization_sql(MY_WASHU_COURSES_WITH_RATINGS, kept)
    /\ previous_standardized' = WASHU_COURSES_STANDARDIZED
    /\ std_runs' = std_runs + 1
    /\ UNCHANGED <<APP_PROCESSED_PDFS, input_csv, df, RMP_ENRICHED_DATA,
                   MY_WASHU_COURSES_WITH_RATINGS, restandardized, raised, pc>>
    /\ UNCHANGED <<stage_vars, enriched_exists, csv_get_ok, loop_vars, page_vars>>
    /\ UNCHANGED <<dag_vars, open_connections>>

\* A row of the query's result read back under the source table's column names.
AsSourceRow(c) ==
    [FILENAME |-> None, PROFESSOR |-> c.FULL_PROFESSOR_NAME,
     SEMESTER |-> c.SEMESTER, COURSE_CODE |-> c.COURSE_CODE,
     SECTION |-> c.SECTION, COURSE_NAME |-> c.COURSE_NAME,
     OVERALL_RATING |-> c.OVERALL_RATING, RMP_ID |-> c.RMP_ID,
     SCRAPED_OVERALL_RATING |-> c.SCRAPED_OVERALL_RATING,
     WOULD_TAKE_AGAIN |-> c.WOULD_TAKE_AGAIN, DIFFICULTY |-> c.DIFFICULTY,
     TAGS |-> c.TAGS]

\* The rows of a result table in some order.
TableOf(rows) ==
    CHOOSE t \in [1..Cardinality(rows) -> rows] : Range(t) = rows

\* The query applied to its own result.
standardize_own_output ==
    /\ pc = "insert_signal_final"
    /\ restandardized = None
    /\ LET source == [i \in 1..Cardinality(WASHU_COURSES_STANDARDIZED) |->
                         AsSourceRow(TableOf(WASHU_COURSES_STANDARDIZED)[i])]
       IN  \E kept \in RowRankOne(source) :
               restandardized' = Some(standardization_sql(source, kept))
    /\ UNCHANGED <<APP_PROCESSED_PDFS, input_csv, df, RMP_ENRICHED_DATA,
                   MY_WASHU_COURSES_WITH_RATINGS, WASHU_COURSES_STANDARDIZED,
                   row_rank_1, previous_standardized, std_runs, raised, pc>>
    /\ UNCHANGED <<stage_vars, enriched_exists, csv_get_ok, loop_vars, page_vars>>
    /\ UNCHANGED <<dag_vars, open_connections>>

(***************************************************************************)
(* The cleaning and standardization stages over any enriched table of at   *)
(* most MaxRows rows, as the scrape stage writes them: every cell a        *)
(* stripped text or NULL, the four scraped cells of a row from one fetch.  *)
(***************************************************************************)
Scraped(rating, again, difficulty, tags) ==
    [rating |-> rating, again |-> again, difficulty |-> difficulty, tags |-> tags]

NotScraped == Scraped(None, None, None, None)
ScrapedPage == Scraped(Some(T_3_9), Some(T_75), Some(T_2_1), Some(T_helpful))

EnrichedRow(i, professor, name, overall, scraped) ==
    [FILENAME |-> Some(FileName(i)), PROFESSOR |-> Some(professor),
     SEMESTER |-> Some(T_SP2025), COURSE_CODE |-> Some(T_CS101),
     SECTION |-> Some(T_Section1), COURSE_NAME |-> Some(name),
     OVERALL_RATING |-> overall, RMP_ID |-> Some(1),
     SCRAPED_OVERALL_RATING |-> scraped.rating,
     WOULD_TAKE_AGAIN |-> scraped.again,
     DIFFICULTY |-> scraped.difficulty,
     TAGS |-> scraped.tags]

EnrichedTables(choices) ==
    {[i \in 1..Len(c) |-> EnrichedRow(i, c[i][1], c[i][2], c[i][3], c[i][4])] :
        c \in SeqsUpTo(choices, MaxRows) \ {<<>>}}

\* Rows that differ in what the duplicate resolver reads.
ResolveChoices ==
    ({T_Doe} \X {T_Unknown, T_Intro} \X {None, Some(T_4_5)} \X {NotScraped, ScrapedPage})
    \cup {<<T_JaneADoe, T_Intro, None, NotScraped>>,
          <<T_JaneADoe, T_Intro, Some(T_4_5), ScrapedPage>>,
          <<T_Roe, T_Intro, Some(T_4_5), ScrapedPage>>,
          <<T_Doe, <<>>, Some(T_4_5), ScrapedPage>>}

\* Rows that differ in the raw rating texts the normalizer reads.
AgainTexts == {T_82, T_0_82, T_100, T_150, T_minus5, T_1_5, T_75}

NormalizeChoices ==
    {<<T_Doe, T_Intro, Some(T_4_5), Scraped(Some(T_3_9), Some(a), Some(T_2_1), Some(T_helpful))>> :
        a \in AgainTexts}
    \cup {<<T_Doe, T_Intro, Some(T_4_5), sc>> :
            sc \in {NotScraped,
                    Scraped(Some(T_NA), Some(T_75), Some(T_2_1), Some(T_helpful)),
                    Scraped(Some(T_3_9), Some(T_NA), Some(T_2_1), Some(T_helpful)),
                    Scraped(Some(T_3_9), Some(T_75), Some(T_NA), Some(T_helpful))}}

InitStages(tables) ==
    /\ APP_PROCESSED_PDFS = <<>>
    /\ input_csv = None
    /\ df = <<>>
    /\ RMP_ENRICHED_DATA \in tables
    /\ MY_WASHU_COURSES_WITH_RATINGS = <<>>
    /\ WASHU_COURSES_STANDARDIZED = {}
    /\ row_rank_1 = {}
    /\ previous_standardized = {}
    /\ restandardized = None
    /\ std_runs = 0
    /\ raised = FALSE
    /\ pc = "create_target_table"
    /\ stage_files = <<>>
    /\ returned = <<>>
    /\ run = 1
    /\ enriched_exists = TRUE
    /\ csv_get_ok = TRUE
    /\ to_fetch = <<>>
    /\ ratings_by_id = <<>>
    /\ fetch_log = <<>>
    /\ response = None
    /\ rating_info = None
    /\ SIGNAL_TABLE = {}
    /\ pokes = 0
    /\ open_connections = {}

InitResolve == InitStages(EnrichedTables(ResolveChoices))
InitNormalize == InitStages(EnrichedTables(NormalizeChoices))

NextStages ==
    \/ create_target_table
    \/ clean_and_store_data
    \/ run_standardization
    \/ rerun_standardization
    \/ standardize_own_output

SpecResolve == InitResolve /\ [][NextStages]_vars
SpecNormalize == InitNormalize /\ [][NextStages]_vars

Standardized == pc = "insert_signal_final"

(***************************************************************************)
(* The duplicate resolver's contract, stated on the source table and the   *)
(* result without the query's own operators.                               *)
(***************************************************************************)
Source == MY_WASHU_COURSES_WITH_RATINGS
Canonical == WASHU_COURSES_STANDARDIZED

\* The last space-separated token of a text: its longest suffix with no space.
RECURSIVE LastToken(_)
LastToken(s) ==
    IF s = <<>> \/ s[Len(s)] = " " THEN <<>>
    ELSE LastToken(SubSeq(s, 1, Len(s) - 1)) \o <<s[Len(s)]>>

Trimmed(x) == IF IsNull(x) THEN None ELSE Some(Strip(Val(x)))
Surname(x) == IF IsNull(x) THEN None ELSE Some(LastToken(Strip(Val(x))))

\* The identity key of a source row and of a canonical row.
IdentityKey(r) ==
    <<Surname(r.PROFESSOR), Trimmed(r.COURSE_CODE), Trimmed(r.SEMESTER), Trimmed(r.SECTION)>>
CanonicalKey(c) ==
    <<Surname(c.FULL_PROFESSOR_NAME), Trimmed(c.COURSE_CODE), Trimmed(c.SEMESTER),
      Trimmed(c.SECTION)>>

\* The source rows of the identity group a canonical row stands for.
GroupOf(c) == {j \in 1..Len(Source) : IdentityKey(Source[j]) = CanonicalKey(c)}

(* C2: the resolver outputs exactly one record per distinct identity key (last
   space-separated token of the trimmed professor, trimmed course code,
   semester and section): no two output records share a key, every input key
   is in the output, and 'Jane A Doe' and 'Doe' with equal course code,
   semester and section fall in one group. *)
C2_OneRecordPerKey ==
    Standardized =>
        /\ \A c, d \in Canonical : CanonicalKey(c) = CanonicalKey(d) => c = d
        /\ {CanonicalKey(c) : c \in Canonical} = {IdentityKey(Source[i]) : i \in 1..Len(Source)}
        /\ Cardinality(Canonical) = Cardinality({IdentityKey(Source[i]) : i \in 1..Len(Source)})
        /\ \A i, j \in 1..Len(Source) :
              /\ Source[i].PROFESSOR = Some(T_JaneADoe)
              /\ Source[j].PROFESSOR = Some(T_Doe)
              /\ Source[i].COURSE_CODE = Source[j].COURSE_CODE
              /\ Source[i].SEMESTER = Source[j].SEMESTER
              /\ Source[i].SECTION = Source[j].SECTION
              => Cardinality({c \in Canonical : GroupOf(c) \cap {i, j} # {}}) = 1

C2_Witness ==
    /\ Standardized
    /\ Len(Source) = 2
    /\ Source[1].PROFESSOR = Some(T_JaneADoe)
    /\ Source[2].PROFESSOR = Some(T_Doe)
    /\ Cardinality(Canonical) = 1

(* C3: for every identity group holding a record with a non-null in-document
   rating, the record the resolver keeps has a non-null in-document rating,
   in whatever order the group's records are stored. *)
C3_RatedRecordKept ==
    Standardized =>
        \A c \in Canonical :
            (\E j \in GroupOf(c) : NotNull(Source[j].OVERALL_RATING))
                => NotNull(c.OVERALL_RATING)

C3_Witness ==
    /\ Standardized
    /\ Len(Source) = 2
    /\ IdentityKey(Source[1]) = IdentityKey(Source[2])
    /\ IsNull(Source[1].OVERALL_RATING)
    /\ NotNull(Source[2].OVERALL_RATING)
    /\ \A c \in Canonical : NotNull(c.OVERALL_RATING)

(* C4: the tie-break is lexicographic: among the records of a group equal on
   presence of the in-document rating the kept one has an external rating
   whenever one of them has, and an external rating never lets a record beat
   one that has the in-document rating when it has none. *)
C4_LexicographicTieBreak ==
    Standardized =>
        \A c \in Canonical : \A j \in GroupOf(c) :
            /\ (/\ NotNull(Source[j].OVERALL_RATING) <=> NotNull(c.OVERALL_RATING)
                /\ NotNull(Source[j].SCRAPED_OVERALL_RATING))
                    => NotNull(c.SCRAPED_OVERALL_RATING)
            /\ (NotNull(c.SCRAPED_OVERALL_RATING) /\ IsNull(Source[j].SCRAPED_OVERALL_RATING))
                    => (NotNull(Source[j].OVERALL_RATING) => NotNull(c.OVERALL_RATING))

C4_Witness ==
    /\ Standardized
    /\ Len(Source) = 2
    /\ IdentityKey(Source[1]) = IdentityKey(Source[2])
    /\ NotNull(Source[1].OVERALL_RATING) /\ NotNull(Source[2].OVERALL_RATING)
    /\ IsNull(Source[1].SCRAPED_OVERALL_RATING)
    /\ NotNull(Source[2].SCRAPED_OVERALL_RATING)
    /\ \A c \in Canonical : NotNull(c.SCRAPED_OVERALL_RATING)

\* A course name the extractor found: neither NULL nor its default "Unknown".
KnownCourseName(x) == NotNull(x) /\ Val(x) # T_Unknown

(* C5: among the records of a group that tie on presence of the in-document
   rating and of the external rating, the resolver keeps one with a known
   course name in preference to one whose course name is the extractor's
   default "Unknown", whenever the group holds one with a known name. *)
C5_KnownCourseNamePreferred ==
    Standardized =>
        \A c \in Canonical : \A j \in GroupOf(c) :
            (/\ NotNull(Source[j].OVERALL_RATING) <=> NotNull(c.OVERALL_RATING)
             /\ NotNull(Source[j].SCRAPED_OVERALL_RATING) <=> NotNull(c.SCRAPED_OVERALL_RATING)
             /\ KnownCourseName(Source[j].COURSE_NAME))
                => KnownCourseName(c.COURSE_NAME)

(* C6: when records of a group tie on all three rank criteria the resolver's
   choice is stable: two runs of the query on the same source rows in the
   same order keep the same records. *)
C6_StableChoice ==
    (Standardized /\ std_runs >= 2) => Canonical = previous_standardized

(* C7: the resolver is idempotent: applied to its own output it returns the
   same set of records with every field value unchanged. *)
C7_Idempotent ==
    NotNull(restandardized) => Val(restandardized) = Canonical

(***************************************************************************)
(* The rating normalizer's contract: the raw text of an enriched row       *)
(* against the canonical record of the same row.  The cleaning step loads  *)
(* the enriched rows in order, so source row i comes from enriched row i.  *)
(***************************************************************************)
RawAgain(i) == RMP_ENRICHED_DATA[i].WOULD_TAKE_AGAIN
CanonicalOf(i) == StandardizedRow(Source[i])

\* The value of a raw numeric text, None when it is NULL or no number.
RawValue(x) == IF IsNull(x) THEN None ELSE ParseFloat(Val(x))

\* The rule of the contract: v/100 when v > 1, v itself when v <= 1.
FractionOf(v) == IF v > Unit THEN v \div 100 ELSE v

(* C8: would_take_again normalization: for every parsed value v the canonical
   value is v/100 when v > 1 and exactly v when v <= 1, applied once over the
   cleaning and standardization steps: "82" gives 0.82, "0.82" gives 0.82,
   "100" gives 1.0. *)
C8_PercentRuleOnce ==
    Standardized =>
        \A i \in row_rank_1 :
            NotNull(RawValue(RawAgain(i)))
                => /\ CanonicalOf(i) \in Canonical
                   /\ CanonicalOf(i).WOULD_TAKE_AGAIN = Some(FractionOf(Val(RawValue(RawAgain(i)))))

InUnitInterval(x) == IsNull(x) \/ (Val(x) >= 0 /\ Val(x) <= Unit)

(* C9 as claimed: for every raw would_take_again input, values above 100 and
   negative values included, the canonical would_take_again is null or a
   number in [0, 1]. *)
C9_AlwaysInUnitInterval ==
    Standardized => \A c \in Canonical : InUnitInterval(c.WOULD_TAKE_AGAIN)

(* C9 as amended: for every raw would_take_again input that is null or a
   numeric text whose value lies in [0, 100], the canonical would_take_again
   is null or a number in [0, 1]. *)
C9_InUnitIntervalForPercentages ==
    Standardized =>
        \A i \in row_rank_1 :
            (\/ IsNull(RawAgain(i))
             \/ /\ NotNull(RawValue(RawAgain(i)))
                /\ Val(RawValue(RawAgain(i))) >= 0
                /\ Val(RawValue(RawAgain(i))) <= 100 * Unit)
                => /\ CanonicalOf(i) \in Canonical
                   /\ InUnitInterval(CanonicalOf(i).WOULD_TAKE_AGAIN)

C9_Witness ==
    /\ Standardized
    /\ \E i \in row_rank_1 :
          /\ RawAgain(i) = Some(T_82)
          /\ CanonicalOf(i) \in Canonical
          /\ CanonicalOf(i).WOULD_TAKE_AGAIN = Some(82 * 100)

\* A raw rating text that is present and no number.
Malformed(x) == NotNull(x) /\ IsNull(ParseFloat(Val(x)))

LoadAttempted == pc \in {"run_standardization", "insert_signal_final", "failed"}

(* C10: for every raw rating field carrying a malformed text such as "N/A",
   the cleaning step followed by standardization gives null for that field
   and does not raise; the record is still written with its other fields. *)
C10_MalformedBecomesNull ==
    LoadAttempted =>
        /\ ~raised
        /\ Len(Source) = Len(RMP_ENRICHED_DATA)
        /\ \A i \in 1..Len(Source) :
              \A f \in FloatColumns :
                  Malformed(RMP_ENRICHED_DATA[i][f]) => IsNull(Source[i][f])

(***************************************************************************)
(* The scale transformer's contract.                                       *)
(***************************************************************************)
RawScraped(i) == RMP_ENRICHED_DATA[i].SCRAPED_OVERALL_RATING

\* The affine map of the contract on a rating r: (r - 1) * 6 / 4 + 1.
ScaleOf(r) == (((r - Unit) * 6) \div 4) + Unit

(* C11: scale transform: for every external rating r between 1 and 5, a
   non-integer such as 3.9 included, the canonical record keeps r and its
   normalized rating is (r - 1) * 6 / 4 + 1 with no rounding of r or of the
   result; a null external rating gives a null normalized rating. *)
C11_ExactScaleTransform ==
    Standardized =>
        \A i \in row_rank_1 :
            /\ IsNull(RawScraped(i)) => IsNull(CanonicalOf(i).NORMALIZED_RMP_RATING)
            /\ (/\ NotNull(RawValue(RawScraped(i)))
                /\ Val(RawValue(RawScraped(i))) >= Unit
                /\ Val(RawValue(RawScraped(i))) <= 5 * Unit)
                  => /\ CanonicalOf(i) \in Canonical
                     /\ CanonicalOf(i).NORMALIZED_RMP_RATING =
                            Some(ScaleOf(Val(RawValue(RawScraped(i)))))

(***************************************************************************)
(* process_pdfs.py: extract_course_info_from_bytes                         *)
(***************************************************************************)
Min(S) == CHOOSE x \in S : \A y \in S : x <= y
Max(S) == CHOOSE x \in S : \A y \in S : x >= y

\* The text s has the literal lit at position i.
StartsAt(s, i, lit) ==
    /\ i >= 1
    /\ i + Len(lit) - 1 <= Len(s)
    /\ SubSeq(s, i, i + Len(lit) - 1) = lit

\* The first position from `from` on where s has the literal, 0 when none.
Find(s, lit, from) ==
    LET hits == {i \in from..Len(s) : StartsAt(s, i, lit)} IN
    IF hits = {} THEN 0 ELSE Min(hits)

Letters ==
    {"a", "b", "c", "d", "e", "f", "g", "h", "i", "j", "k", "l", "m", "n", "o",
     "p", "q", "r", "s", "t", "u", "v", "w", "x", "y", "z", "A", "B", "C", "D",
     "E", "F", "G", "H", "I", "J", "K", "L", "M", "N", "O", "P", "Q", "R", "S",
     "T", "U", "V", "W", "X", "Y", "Z"}

\* The character classes \w, [._\s], \s and [-_] of the patterns.
IsWordChar(c) == c \in Letters \/ IsDigit(c) \/ c = "_"
IsSeparator(c) == c \in {".", "_", " "}
IsSpace(c) == c \in {" ", "\n"}
IsDashOrUnderscore(c) == c \in {"-", "_"}

\* The last position of the longest run of characters of a class that starts
\* at position i; i - 1 when s[i] is not of the class.
InClass(c, class) ==
    IF class = "digit" THEN IsDigit(c)
    ELSE IF class = "separator" THEN IsSeparator(c)
    ELSE IsSpace(c)

RunEnd(s, i, class) ==
    LET ends == {j \in i..Len(s) : \A k \in i..j : InClass(s[k], class)} IN
    IF ends = {} THEN i - 1 ELSE Max(ends)

\* re.search(r'\$\$(.*?)\$\$', filename): the text between the first "$$" and
\* the next one.
ProfessorMatch(filename) ==
    LET open == Find(filename, <<"$", "$">>, 1)
        close == IF open = 0 THEN 0 ELSE Find(filename, <<"$", "$">>, open + 2)
    IN  IF open = 0 \/ close = 0 THEN None
        ELSE Some(SubSeq(filename, open + 2, close - 1))

\* re.search(r'^(SP|FL)(\d{4})', filename), as f"{group(1)} {group(2)}".
SemesterMatch(filename) ==
    IF /\ (StartsAt(filename, 1, <<"S", "P">>) \/ StartsAt(filename, 1, <<"F", "L">>))
       /\ Len(filename) >= 6
       /\ \A k \in 3..6 : IsDigit(filename[k])
    THEN Some(SubSeq(filename, 1, 2) \o <<" ">> \o SubSeq(filename, 3, 6))
    ELSE None

\* [._\s]+(\d+) after a word that ends at position j: the separators are the
\* whole run after j, and a digit has to follow it.
SectionStart(s, j) ==
    LET e == RunEnd(s, j + 1, "separator") IN
    IF e >= j + 1 /\ e + 1 <= Len(s) /\ IsDigit(s[e + 1]) THEN e + 1 ELSE 0

\* (\w+)[._\s]+(\d+) from position k: the ends of the word for which the rest
\* of the pattern matches.
WordEnds(s, k) ==
    {j \in k..Len(s) : (\A x \in k..j : IsWordChar(s[x])) /\ SectionStart(s, j) # 0}

\* [._\s]+(\w+)[._\s]+(\d+) after an anchor that ends at position e: the ends
\* of the first separator run for which the rest of the pattern matches.
SeparatorEnds(s, e) ==
    {j \in (e + 1)..Len(s) :
        (\A x \in (e + 1)..j : IsSeparator(s[x])) /\ WordEnds(s, j + 1) # {}}

\* re.search(r'(L24|E81)[._\s]+(\w+)[._\s]+(\d+)', filename): the leftmost
\* anchor from which the pattern matches, every quantifier as long as the
\* rest of the match allows; gives (group(2), group(3)).
CourseMatch(filename) ==
    LET anchors == {a \in 1..Len(filename) :
                       /\ (StartsAt(filename, a, <<"L", "2", "4">>) \/ StartsAt(filename, a, <<"E", "8", "1">>))
                       /\ SeparatorEnds(filename, a + 2) # {}}
    IN  IF anchors = {} THEN None
        ELSE LET a == Min(anchors)
                 k == Max(SeparatorEnds(filename, a + 2)) + 1
                 j == Max(WordEnds(filename, k))
                 d == SectionStart(filename, j)
             IN  Some(<<SubSeq(filename, k, j),
                        SubSeq(filename, d, RunEnd(filename, d, "digit"))>>)

\* Where the digits of RMP[-_]?(\d+) start when the pattern matches at a.
RmpDigits(s, a) ==
    IF /\ a + 3 <= Len(s)
       /\ s[a] \in {"R", "r"} /\ s[a + 1] \in {"M", "m"} /\ s[a + 2] \in {"P", "p"}
    THEN IF IsDigit(s[a + 3]) THEN a + 3
         ELSE IF IsDashOrUnderscore(s[a + 3]) /\ a + 4 <= Len(s) /\ IsDigit(s[a + 4])
              THEN a + 4
              ELSE 0
    ELSE 0

\* re.search(r'RMP[-_]?(\d+)', filename, re.IGNORECASE), as int(group(1)).
RmpMatch(filename) ==
    LET hits == {a \in 1..Len(filename) : RmpDigits(filename, a) # 0} IN
    IF hits = {} THEN None
    ELSE LET d == RmpDigits(filename, Min(hits)) IN
         Some(DigitsToNat(SubSeq(filename, d, RunEnd(filename, d, "digit"))))

\* The text pdfplumber extracts: every page's text followed by a space, pages
\* without text skipped; "" when the bytes are no readable PDF (None here).
ExtractText(file_bytes) ==
    LET RECURSIVE Pages(_)
        Pages(ps) == IF ps = <<>> THEN <<>>
                     ELSE IF Head(ps) = <<>> THEN Pages(Tail(ps))
                     ELSE Head(ps) \o <<" ">> \o Pages(Tail(ps))
    IN  IF IsNull(file_bytes) THEN <<>> ELSE Pages(Val(file_bytes))

NoNewline(s, a, b) == \A k \in a..b : s[k] # "\n"

\* re.search(r'Reports for .*?- (.*?)\(', text): group(1) of the leftmost
\* match, both .*? as short as possible and neither crossing a line end.
CourseNameMatch(text) ==
    LET Parens(b) == {c \in (b + 2)..Len(text) :
                         text[c] = "(" /\ NoNewline(text, b + 2, c - 1)}
        Dashes(a) == {b \in (a + 12)..Len(text) :
                         /\ StartsAt(text, b, <<"-", " ">>)
                         /\ NoNewline(text, a + 12, b - 1)
                         /\ Parens(b) # {}}
        starts == {a \in 1..Len(text) :
                      StartsAt(text, a, <<"R", "e", "p", "o", "r", "t", "s", " ", "f", "o", "r", " ">>) /\ Dashes(a) # {}}
    IN  IF starts = {} THEN None
        ELSE LET b == Min(Dashes(Min(starts))) IN
             Some(SubSeq(text, b + 2, Min(Parens(b)) - 1))

\* Where (\d+\.\d+) ends when it matches from position d, 0 when it does not.
DecimalEnd(s, d) ==
    LET i == RunEnd(s, d, "digit") IN
    IF i >= d /\ i + 2 <= Len(s) /\ s[i + 1] = "." /\ IsDigit(s[i + 2])
    THEN RunEnd(s, i + 2, "digit")
    ELSE 0

\* re.search(r'Overall Rating:\s*(\d+\.\d+)', text), as float(group(1)).
OverallRatingMatch(text) ==
    LET Digits(a) == RunEnd(text, a + 15, "space") + 1
        hits == {a \in 1..Len(text) :
                    /\ StartsAt(text, a, <<"O", "v", "e", "r", "a", "l", "l", " ", "R", "a", "t", "i", "n", "g", ":">>)
                    /\ DecimalEnd(text, Digits(a)) # 0}
    IN  IF hits = {} THEN None
        ELSE LET d == Digits(Min(hits)) IN
             ParseFloat(SubSeq(text, d, DecimalEnd(text, d)))

\* Value of textual fields the patterns did not find as None.
extract_course_info_without_default(file_bytes, filename) ==
    LET name == Strip(filename)
        text == ExtractText(file_bytes)
        OrNone(m) == IF IsNull(m) THEN None ELSE Val(m)
    IN  [filename |-> name,
         professor |-> OrNone(ProfessorMatch(name)),
         semester |-> OrNone(SemesterMatch(name)),
         course_code |-> IF IsNull(CourseMatch(name)) THEN None ELSE Val(CourseMatch(name))[1],
         section |-> IF IsNull(CourseMatch(name)) THEN None ELSE Val(CourseMatch(name))[2],
         course_name |-> IF IsNull(CourseNameMatch(text)) THEN None
                         ELSE Strip(Val(CourseNameMatch(text))),
         overall_rating |-> OverallRatingMatch(text),
         rmp_id |-> RmpMatch(name)]

\* Lines 13-67: the fragment of one document.
extract_course_info_from_bytes(file_bytes, filename) ==
    LET name == Strip(filename)
        text == ExtractText(file_bytes)
        OrUnknown(m) == IF IsNull(m) THEN T_Unknown ELSE Val(m)
    IN  [filename |-> name,
         professor |-> OrUnknown(ProfessorMatch(name)),
         semester |-> OrUnknown(SemesterMatch(name)),
         course_code |-> IF IsNull(CourseMatch(name)) THEN T_Unknown
                         ELSE Val(CourseMatch(name))[1],
         section |-> IF IsNull(CourseMatch(name)) THEN T_Unknown
                     ELSE Val(CourseMatch(name))[2],
         course_name |-> IF IsNull(CourseNameMatch(text)) THEN T_Unknown
                         ELSE Strip(Val(CourseNameMatch(text))),
         overall_rating |-> OverallRatingMatch(text),
         rmp_id |-> RmpMatch(name)]

(***************************************************************************)
(* process_pdfs.py: process_pdfs_from_snowflake                            *)
(***************************************************************************)
\* filename.lower().endswith('.pdf')
IsPdfName(filename) ==
    /\ Len(filename) >= 4
    /\ filename[Len(filename) - 3] = "."
    /\ filename[Len(filename) - 2] \in {"p", "P"}
    /\ filename[Len(filename) - 1] \in {"d", "D"}
    /\ filename[Len(filename)] \in {"f", "F"}

\* A staged file: its name, its bytes (None: no readable PDF, else the text
\* of each page) and what goes wrong when it is fetched: "get" (the GET
\* raises), "missing" (no local file after the GET), "read" (an exception
\* while the file is opened and processed) or "none".
StagedFile(name, bytes, fault) == [name |-> name, bytes |-> bytes, fault |-> fault]

Faults == {"none", "get", "missing", "read"}

\* One pass of the loop body over a file: the fragment appended to results.
ProcessFile(f) ==
    IF ~IsPdfName(f.name) THEN <<>>
    ELSE IF f.fault = "get" THEN <<>>
    ELSE IF f.fault = "missing" THEN <<>>
    ELSE IF f.fault = "read" THEN <<>>
    ELSE <<extract_course_info_from_bytes(f.bytes, f.name)>>

\* The loop stopping at the first file that fails.
RECURSIVE ProcessFiles_abort_on_failure(_)
ProcessFiles_abort_on_failure(files) ==
    IF files = <<>> THEN <<>>
    ELSE IF IsPdfName(Head(files).name) /\ Head(files).fault # "none" THEN <<>>
    ELSE ProcessFile(Head(files)) \o ProcessFiles_abort_on_failure(Tail(files))

\* Lines 167-203: results after the loop over the listed files.
RECURSIVE ProcessFiles(_)
ProcessFiles(files) ==
    IF files = <<>> THEN <<>>
    ELSE ProcessFile(Head(files)) \o ProcessFiles(Tail(files))

\* process_pdfs.clean_and_store_data: overall_rating is already a float or
\* None and pd.to_numeric keeps it; the fillna calls find no missing text.
clean_frame(results) ==
    [i \in 1..Len(results) |->
        [results[i] EXCEPT !.overall_rating = IF IsNull(@) THEN None ELSE @]]

\* Task process_pdfs: the table is created anew, the staged files are
\* processed in the order LIST gives, and the cleaned frame is stored and
\* returned; without files or without results the table stays empty and an
\* empty frame is returned.
process_pdfs_from_snowflake ==
    /\ pc = "process_pdfs"
    /\ LET cleaned_df == clean_frame(ProcessFiles(stage_files)) IN
        /\ APP_PROCESSED_PDFS' = cleaned_df
        /\ returned' = cleaned_df
    /\ raised' = FALSE
    /\ pc' = "scrape_rmp"
    /\ UNCHANGED <<input_csv, df, RMP_ENRICHED_DATA, MY_WASHU_COURSES_WITH_RATINGS,
                   WASHU_COURSES_STANDARDIZED, row_rank_1, previous_standardized,
                   restandardized, std_runs>>
    /\ UNCHANGED <<stage_files, run, enriched_exists, csv_get_ok, loop_vars, page_vars>>
    /\ open_connections' = AfterExit(open_connections, "process_pdfs", "return")
    /\ UNCHANGED dag_vars

(***************************************************************************)
(* The PDF stage on its own: any listing of at most MaxFiles staged files. *)
(***************************************************************************)
MaxFiles == 2

N_marked_first == <<"$", "$", "J", "a", "n", "e", " ", "D", "o", "e", "$", "$", ".", "S", "P", "2", "0", "2", "5", ".", "L", "2", "4", ".", "C", "S", "1", "0", "1", ".", "5", ".", "p", "d", "f">>
N_complete == <<"S", "P", "2", "0", "2", "5", ".", "L", "2", "4", ".", "C", "S", "1", "0", "1", ".", "5", ".", "$", "$", "D", "o", "e", "$", "$", ".", "R", "M", "P", "7", "7", "7", "7", ".", "p", "d", "f">>
N_plain == <<" ", "n", "o", "t", "e", "s", ".", "p", "d", "f">>
N_underscores == <<"F", "L", "2", "0", "2", "4", "_", "E", "8", "1", "_", "C", "S", "E", "_", "1", "3", "1", "_", "0", "2", "_", "r", "m", "p", "-", "1", "2", ".", "P", "D", "F">>
N_input_csv == <<"i", "n", "p", "u", "t", ".", "c", "s", "v">>

T_rating_line == <<"O", "v", "e", "r", "a", "l", "l", " ", "R", "a", "t", "i", "n", "g", ":", " ", "4", ".", "5", "0">>
T_report_head == <<"R", "e", "p", "o", "r", "t", "s", " ", "f", "o", "r", " ", "S", "p", "r", "i", "n", "g", " ", "2", "0", "2", "5", " ", "-", " ", "I", "n", "t", "r", "o", " ", "(", "C", "S", "1", "0", "1", ")">>

B_unreadable == None
B_no_text == Some(<<<<>>>>)
B_rating_only == Some(<<T_rating_line>>)
B_report == Some(<<T_report_head, <<>>, T_rating_line>>)

StagedFiles ==
    {StagedFile(N_complete, B_report, f) : f \in Faults}
    \cup {StagedFile(N_complete, B_unreadable, "none"),
          StagedFile(N_marked_first, B_rating_only, "none"),
          StagedFile(N_marked_first, B_report, "get"),
          StagedFile(N_plain, B_no_text, "none"),
          StagedFile(N_plain, B_report, "read"),
          StagedFile(N_underscores, B_report, "none"),
          StagedFile(N_underscores, B_unreadable, "missing"),
          StagedFile(N_input_csv, B_unreadable, "none")}

InitExtract ==
    /\ stage_files \in SeqsUpTo(StagedFiles, MaxFiles)
    /\ APP_PROCESSED_PDFS = <<>>
    /\ input_csv = None
    /\ df = <<>>
    /\ RMP_ENRICHED_DATA = <<>>
    /\ MY_WASHU_COURSES_WITH_RATINGS = <<>>
    /\ WASHU_COURSES_STANDARDIZED = {}
    /\ row_rank_1 = {}
    /\ previous_standardized = {}
    /\ restandardized = None
    /\ std_runs = 0
    /\ raised = FALSE
    /\ pc = "process_pdfs"
    /\ returned = <<>>
    /\ run = 1
    /\ enriched_exists = FALSE
    /\ csv_get_ok = TRUE
    /\ to_fetch = <<>>
    /\ ratings_by_id = <<>>
    /\ fetch_log = <<>>
    /\ response = None
    /\ rating_info = None
    /\ SIGNAL_TABLE = {}
    /\ pokes = 0
    /\ open_connections = {}

NextExtract == process_pdfs_from_snowflake

SpecExtract == InitExtract /\ [][NextExtract]_vars

Processed == pc = "scrape_rmp"

\* The text has the literal somewhere.
Contains(s, lit) ==
    \E i \in 1..(Len(s) - Len(lit) + 1) : SubSeq(s, i, i + Len(lit) - 1) = lit

\* The staged files the loop reads and hands to the extractor.
ReadFiles == {i \in 1..Len(stage_files) :
                 IsPdfName(stage_files[i].name) /\ stage_files[i].fault = "none"}

FragmentFields ==
    {"filename", "professor", "semester", "course_code", "section",
     "course_name", "overall_rating", "rmp_id"}

FragmentFor(i) == extract_course_info_from_bytes(stage_files[i].bytes, stage_files[i].name)

(* C12: extract_course_info_from_bytes returns, for every filename and every
   byte content, a fragment with exactly the eight fields filename,
   professor, semester, course_code, section, course_name, overall_rating
   and rmp_id: a string field whose pattern does not match is "Unknown", a
   numeric one is null, and bytes that are no readable PDF default only
   course_name and overall_rating while the fields taken from the filename
   are still extracted. *)
C12_ExtractorAlwaysReturnsFragment ==
    Processed =>
        \A i \in ReadFiles :
            LET g == FragmentFor(i)
                name == stage_files[i].name
            IN  /\ \E k \in 1..Len(returned) : returned[k] = g
                /\ DOMAIN g = FragmentFields
                /\ ~Contains(name, <<"$">>) => g.professor = T_Unknown
                /\ (~Contains(name, <<"S", "P">>) /\ ~Contains(name, <<"F", "L">>))
                      => g.semester = T_Unknown
                /\ (~Contains(name, <<"L", "2", "4">>) /\ ~Contains(name, <<"E", "8", "1">>))
                      => (g.course_code = T_Unknown /\ g.section = T_Unknown)
                /\ (\A a \in 1..Len(name) : name[a] \notin {"R", "r"}) => IsNull(g.rmp_id)
                /\ ~Contains(ExtractText(stage_files[i].bytes), <<"R", "e", "p", "o", "r", "t", "s", " ", "f", "o", "r", " ">>)
                      => g.course_name = T_Unknown
                /\ ~Contains(ExtractText(stage_files[i].bytes), <<"O", "v", "e", "r", "a", "l", "l", " ", "R", "a", "t", "i", "n", "g", ":">>)
                      => IsNull(g.overall_rating)
                /\ IsNull(stage_files[i].bytes)
                      => /\ g.course_name = T_Unknown
                         /\ IsNull(g.overall_rating)
                         /\ \A f \in {"filename", "professor", "semester",
                                      "course_code", "section"} :
                                g[f] = extract_course_info_from_bytes(B_report, name)[f]
                         /\ g.rmp_id = extract_course_info_from_bytes(B_report, name).rmp_id

\* An unreadable file with every marker in its name, next to a file without
\* any marker: the first keeps the fields of its name, the second is all
\* defaults.
C12_Witness ==
    /\ Processed
    /\ \E i, j \in ReadFiles :
          /\ stage_files[i] = StagedFile(N_complete, B_unreadable, "none")
          /\ stage_files[j] = StagedFile(N_plain, B_no_text, "none")
          /\ returned[1] = [filename |-> N_complete, professor |-> T_Doe,
                            semester |-> T_SP2025, course_code |-> T_CS101,
                            section |-> <<"5">>, course_name |-> T_Unknown,
                            overall_rating |-> None, rmp_id |-> Some(7777)]
          /\ returned[2] = [filename |-> <<"n", "o", "t", "e", "s", ".", "p", "d", "f">>, professor |-> T_Unknown,
                            semester |-> T_Unknown, course_code |-> T_Unknown,
                            section |-> T_Unknown, course_name |-> T_Unknown,
                            overall_rating |-> None, rmp_id |-> None]

(***************************************************************************)
(* scrape_professor_rating on its own: any id and any reply whose page has *)
(* at most MaxNodes nodes of each kind.                                    *)
(***************************************************************************)
MaxNodes == 2

T_7777 == <<"7", "7", "7", "7">>
T_Tough == <<"T", "o", "u", "g", "h", " ", "G", "r", "a", "d", "e", "r">>

T_75_percents == <<" ", "7", "5", "%", "%", " ">>

Pages ==
    {Page(r, f, g) : r \in SeqsUpTo({T_3_9_padded, T_NA}, MaxNodes),
                     f \in SeqsUpTo({T_75_percent, T_2_1, T_75_percents}, MaxNodes),
                     g \in SeqsUpTo({T_Helpful, T_Tough}, MaxNodes)}

ScrapeReplies ==
    {Reply("exception", 0, NoPage)}
    \cup {Reply("page", 200, pg) : pg \in Pages}
    \cup {Reply("page", 404, pg) : pg \in Pages}
    \cup {Reply("unparsable", 200, pg) : pg \in Pages}

InitScrape ==
    /\ response \in [rmp_id : {None, Some(T_7777)}, reply : ScrapeReplies]
    /\ rating_info = None
    /\ pc = "scrape_professor_rating"
    /\ raised = FALSE
    /\ APP_PROCESSED_PDFS = <<>>
    /\ input_csv = None
    /\ df = <<>>
    /\ RMP_ENRICHED_DATA = <<>>
    /\ MY_WASHU_COURSES_WITH_RATINGS = <<>>
    /\ WASHU_COURSES_STANDARDIZED = {}
    /\ row_rank_1 = {}
    /\ previous_standardized = {}
    /\ restandardized = None
    /\ std_runs = 0
    /\ stage_files = <<>>
    /\ returned = <<>>
    /\ run = 1
    /\ enriched_exists = FALSE
    /\ csv_get_ok = TRUE
    /\ to_fetch = <<>>
    /\ ratings_by_id = <<>>
    /\ fetch_log = <<>>
    /\ SIGNAL_TABLE = {}
    /\ pokes = 0
    /\ open_connections = {}

\* One call of scrape_professor_rating: every exception is caught inside it.
call_scrape_professor_rating ==
    /\ pc = "scrape_professor_rating"
    /\ rating_info' = scrape_professor_rating(response.rmp_id, response.reply)
    /\ raised' = FALSE
    /\ pc' = "returned"
    /\ UNCHANGED <<APP_PROCESSED_PDFS, input_csv, df, RMP_ENRICHED_DATA,
                   MY_WASHU_COURSES_WITH_RATINGS, WASHU_COURSES_STANDARDIZED,
                   row_rank_1, previous_standardized, restandardized, std_runs>>
    /\ UNCHANGED <<stage_vars, enriched_exists, csv_get_ok, loop_vars, response>>
    /\ UNCHANGED <<dag_vars, open_connections>>

NextScrape == call_scrape_professor_rating

SpecScrape == InitScrape /\ [][NextScrape]_vars

ScrapeReturned == pc = "returned"

(* C13: scrape_professor_rating raises nothing and returns null when the
   reply has a status other than 200, when the request raises and when
   parsing raises; on a 200 reply that parses it returns a fragment with the
   keys scraped_overall_rating, would_take_again, difficulty and tags, each
   null (tags empty) when its nodes are not on the page. *)
C13_ScrapeNeverRaises ==
    ScrapeReturned =>
        LET reply == response.reply
            page == reply.page
        IN  /\ ~raised
            /\ (reply.kind = "exception" \/ reply.kind = "unparsable" \/ reply.status # 200)
                  => IsNull(rating_info)
            /\ (reply.kind = "page" /\ reply.status = 200 /\ NotNull(response.rmp_id))
                  => /\ NotNull(rating_info)
                     /\ {"scraped_overall_rating", "would_take_again", "difficulty",
                         "tags"} \subseteq DOMAIN Val(rating_info)
                     /\ page.rating_nodes = <<>>
                           => IsNull(Val(rating_info).scraped_overall_rating)
                     /\ Len(page.feedback_nodes) < 2
                           => /\ IsNull(Val(rating_info).would_take_again)
                              /\ IsNull(Val(rating_info).difficulty)
                     /\ page.tag_nodes = <<>> => Val(rating_info).tags = {}

\* A 404 reply whose body has every node, and nothing returned for it.
C13_Witness ==
    /\ ScrapeReturned
    /\ response.rmp_id = Some(T_7777)
    /\ response.reply = Reply("page", 404, Page(<<T_3_9_padded>>, <<T_75_percent, T_2_1>>,
                                                <<T_Helpful>>))
    /\ IsNull(rating_info)

(***************************************************************************)
(* scrape_professor_ratings_table step by step: the load and merge, each   *)
(* pass of the fetch loop as a fetch and a sleep, then the join and the    *)
(* write.                                                                  *)
(***************************************************************************)
\* df['rmp_id'].dropna(), in row order.
RECURSIVE NonNullIds(_)
NonNullIds(frame) ==
    IF frame = <<>> THEN <<>>
    ELSE (IF NotNull(Head(frame).rmp_id) THEN <<Val(Head(frame).rmp_id)>> ELSE <<>>)
         \o NonNullIds(Tail(frame))

\* Series.unique(): the first occurrence of every value, in order.
RECURSIVE Unique(_)
Unique(ids) ==
    IF ids = <<>> THEN <<>>
    ELSE LET front == Unique(SubSeq(ids, 1, Len(ids) - 1))
             last == ids[Len(ids)]
         IN  IF last \in Range(front) THEN front ELSE Append(front, last)

\* The ids of the loop without unique(): one pass for every row with an id.
unique_id_list_with_repeats(frame) == NonNullIds(frame)

\* df['rmp_id'].dropna().unique() as the loop goes through it.
unique_id_list(frame) == Unique(NonNullIds(frame))

\* ratings_by_id after a fetch that loses what was stored when it fails.
StoreRating_reset_on_failure(ratings, key, info) ==
    IF NotNull(info)
    THEN [t \in DOMAIN ratings \cup {key} |-> IF t = key THEN Val(info) ELSE ratings[t]]
    ELSE <<>>

\* if rating_info: ratings_by_id[rmp_id_clean] = rating_info
StoreRating(ratings, key, info) ==
    IF NotNull(info)
    THEN [t \in DOMAIN ratings \cup {key} |-> IF t = key THEN Val(info) ELSE ratings[t]]
    ELSE ratings

\* Where the loop is once the ids in rest are left.
LoopTop(rest) == IF rest = <<>> THEN "join" ELSE "fetch"

\* The sleep skipped after a fetch that gave nothing.
AfterFetch_no_sleep_on_failure(info, rest) ==
    IF NotNull(info) THEN "sleep" ELSE LoopTop(rest)

\* Lines 164-166: whatever the fetch gave, the pass goes on to time.sleep.
AfterFetch(info, rest) == "sleep"

\* An entry of the loop's trace.
LogEntry(op, id, info) == [op |-> op, id |-> id, info |-> info]

\* Lines 108-152: load, merge with input.csv, early returns, unique ids.
begin_scrape ==
    /\ pc = "scrape_rmp"
    /\ \E get_ok \in BOOLEAN :
        LET merged == IF APP_PROCESSED_PDFS = <<>> THEN <<>>
                      ELSE MergeWithCsv(APP_PROCESSED_PDFS,
                                        load_input_csv_from_stage(input_csv, get_ok))
        IN  /\ df' = merged
            /\ csv_get_ok' = get_ok
            /\ to_fetch' = unique_id_list(merged)
            /\ pc' = IF unique_id_list(merged) = <<>> THEN "create_target_table"
                     ELSE "fetch"
    /\ ratings_by_id' = <<>>
    /\ fetch_log' = <<>>
    /\ raised' = FALSE
    /\ UNCHANGED <<APP_PROCESSED_PDFS, input_csv, RMP_ENRICHED_DATA,
                   MY_WASHU_COURSES_WITH_RATINGS, WASHU_COURSES_STANDARDIZED,
                   row_rank_1, previous_standardized, restandardized, std_runs>>
    /\ UNCHANGED <<stage_vars, enriched_exists, page_vars>>
    /\ open_connections' =
          IF pc' = "fetch" THEN Connected(open_connections, "scrape_rmp")
          ELSE AfterExit(open_connections, "scrape_rmp", "return")
    /\ UNCHANGED dag_vars

\* Lines 156-163: the next id of the loop is cleaned and fetched, and the
\* rating_info is stored when there is one.
fetch_next ==
    /\ pc = "fetch"
    /\ \E info \in FetchOutcomes(Head(to_fetch)) :
        /\ ratings_by_id' = StoreRating(ratings_by_id, rmp_id_clean(Head(to_fetch)), info)
        /\ fetch_log' = Append(fetch_log, LogEntry("fetch", rmp_id_clean(Head(to_fetch)), info))
        /\ pc' = AfterFetch(info, Tail(to_fetch))
    /\ to_fetch' = Tail(to_fetch)
    /\ UNCHANGED <<APP_PROCESSED_PDFS, input_csv, df, RMP_ENRICHED_DATA,
                   MY_WASHU_COURSES_WITH_RATINGS, WASHU_COURSES_STANDARDIZED,
                   row_rank_1, previous_standardized, restandardized, std_runs, raised>>
    /\ UNCHANGED <<stage_vars, enriched_exists, csv_get_ok, page_vars>>
    /\ UNCHANGED <<dag_vars, open_connections>>

\* Line 166: time.sleep(random.uniform(1, 3)) ends the pass.
sleep ==
    /\ pc = "sleep"
    /\ fetch_log' = Append(fetch_log, LogEntry("sleep", <<>>, None))
    /\ pc' = LoopTop(to_fetch)
    /\ UNCHANGED <<APP_PROCESSED_PDFS, input_csv, df, RMP_ENRICHED_DATA,
                   MY_WASHU_COURSES_WITH_RATINGS, WASHU_COURSES_STANDARDIZED,
                   row_rank_1, previous_standardized, restandardized, std_runs, raised>>
    /\ UNCHANGED <<stage_vars, enriched_exists, csv_get_ok, to_fetch, ratings_by_id,
                   page_vars>>
    /\ UNCHANGED <<dag_vars, open_connections>>

\* Lines 168-209: the ratings are joined to the rows, every cell is cleaned
\* and the output table is created anew and filled.
join_and_write ==
    /\ pc = "join"
    /\ RMP_ENRICHED_DATA' =
          [i \in 1..Len(df) |-> CleanRow(JoinRatings(df[i], ratings_by_id))]
    /\ enriched_exists' = TRUE
    /\ raised' = FALSE
    /\ pc' = "create_target_table"
    /\ UNCHANGED <<APP_PROCESSED_PDFS, input_csv, df, MY_WASHU_COURSES_WITH_RATINGS,
                   WASHU_COURSES_STANDARDIZED, row_rank_1, previous_standardized,
                   restandardized, std_runs>>
    /\ UNCHANGED <<stage_vars, csv_get_ok, loop_vars, page_vars>>
    /\ open_connections' = AfterExit(open_connections, "scrape_rmp", "return")
    /\ UNCHANGED dag_vars

\* No input.csv, one without rows, and one that gives the course CS101 the id 2.
LoopCsvs == {None, Some(<<>>), Some(<<[course_code |-> T_CS101, rmp_id |-> Some(2)]>>)}

InitFetchLoop ==
    /\ APP_PROCESSED_PDFS \in ProcessedTables
    /\ input_csv \in LoopCsvs
    /\ df = <<>>
    /\ RMP_ENRICHED_DATA = <<>>
    /\ MY_WASHU_COURSES_WITH_RATINGS = <<>>
    /\ WASHU_COURSES_STANDARDIZED = {}
    /\ row_rank_1 = {}
    /\ previous_standardized = {}
    /\ restandardized = None
    /\ std_runs = 0
    /\ raised = FALSE
    /\ pc = "scrape_rmp"
    /\ stage_files = <<>>
    /\ returned = <<>>
    /\ run = 1
    /\ enriched_exists = FALSE
    /\ csv_get_ok = TRUE
    /\ to_fetch = <<>>
    /\ ratings_by_id = <<>>
    /\ fetch_log = <<>>
    /\ response = None
    /\ rating_info = None
    /\ SIGNAL_TABLE = {}
    /\ pokes = 0
    /\ open_connections = {}

NextFetchLoop ==
    \/ begin_scrape
    \/ fetch_next
    \/ sleep
    \/ join_and_write

SpecFetchLoop == InitFetchLoop /\ [][NextFetchLoop]_vars

Fetches == {k \in 1..Len(fetch_log) : fetch_log[k].op = "fetch"}

\* The rows of the frame that carry an id, as the text the fetch is made for.
RowsOfId(id) == {i \in 1..Len(df) : NotNull(df[i].rmp_id) /\ rmp_id_clean(Val(df[i].rmp_id)) = id}

(* C14: in one batch at most one fetch is made for each distinct external
   id, however many rows carry the id and whether the fetch gives a fragment
   or fails: no id is fetched a second time. *)
C14_OneFetchPerId ==
    /\ \A j, k \in Fetches : fetch_log[j].id = fetch_log[k].id => j = k
    /\ \A k \in Fetches : RowsOfId(fetch_log[k].id) # {}

\* Two rows share an id, its one fetch failed, and the stage has finished.
C14_Witness ==
    /\ pc = "create_target_table"
    /\ \E k \in Fetches :
          /\ IsNull(fetch_log[k].info)
          /\ Cardinality(RowsOfId(fetch_log[k].id)) = 2
          /\ \A j \in Fetches : j = k

\* The fetch made for an id, when one was made.
FetchOf(id) == {k \in Fetches : fetch_log[k].id = id}

\* The four scraped cells of a written row are all NULL.
NoRating(r) ==
    /\ IsNull(r.SCRAPED_OVERALL_RATING)
    /\ IsNull(r.WOULD_TAKE_AGAIN)
    /\ IsNull(r.DIFFICULTY)
    /\ IsNull(r.TAGS)

\* The four scraped cells of a written row are those of the rating_info.
HasRating(r, info) ==
    /\ r.SCRAPED_OVERALL_RATING = info.scraped_overall_rating
    /\ r.WOULD_TAKE_AGAIN = info.would_take_again
    /\ r.DIFFICULTY = info.difficulty
    /\ r.TAGS = Some(JoinTags(info.tags))

Written == pc = "create_target_table" /\ fetch_log # <<>>

(* C15: a failed fetch is isolated: every row of the failed id is still
   written, with null external rating, would_take_again, difficulty and
   tags; the rows of the ids whose fetch gave a fragment get its rating
   fields; no exception leaves the stage and no row is lost. *)
C15_FetchFailureIsolated ==
    Written =>
        /\ ~raised
        /\ Len(RMP_ENRICHED_DATA) = Len(df)
        /\ \A i \in 1..Len(df) :
              /\ RMP_ENRICHED_DATA[i].RMP_ID = df[i].rmp_id
              /\ IsNull(df[i].rmp_id) => NoRating(RMP_ENRICHED_DATA[i])
              /\ NotNull(df[i].rmp_id) =>
                    \E k \in FetchOf(rmp_id_clean(Val(df[i].rmp_id))) :
                        IF IsNull(fetch_log[k].info)
                        THEN NoRating(RMP_ENRICHED_DATA[i])
                        ELSE HasRating(RMP_ENRICHED_DATA[i], Val(fetch_log[k].info))

\* The first id's fetch gave the rating page, the second id's fetch failed
\* after it, and both rows are written.
C15_Witness ==
    /\ Written
    /\ Len(df) = 2
    /\ \E j, k \in Fetches :
          /\ j < k
          /\ NotNull(fetch_log[j].info)
          /\ IsNull(fetch_log[k].info)
          /\ RMP_ENRICHED_DATA[1].SCRAPED_OVERALL_RATING = Some(T_3_9)
          /\ RMP_ENRICHED_DATA[1].TAGS = Some(T_helpful)
          /\ NoRating(RMP_ENRICHED_DATA[2])
          /\ NotNull(RMP_ENRICHED_DATA[2].RMP_ID)

(* C20: between any two consecutive fetches of the loop there is a sleep,
   after a failed fetch as well: no fetch follows a fetch directly. *)
C20_SleepBetweenFetches ==
    /\ \A k \in Fetches : k < Len(fetch_log) => fetch_log[k + 1].op = "sleep"
    /\ pc \in {"fetch", "join", "create_target_table"}
          => (fetch_log # <<>> => fetch_log[Len(fetch_log)].op = "sleep")

\* A failed fetch, a sleep, and then the fetch of the next id.
C20_Witness ==
    /\ Len(fetch_log) >= 3
    /\ fetch_log[1].op = "fetch" /\ IsNull(fetch_log[1].info)
    /\ fetch_log[2].op = "sleep"
    /\ fetch_log[3].op = "fetch"

(***************************************************************************)
(* The merge without an auxiliary table.                                   *)
(***************************************************************************)
\* input.csv is not in the stage, has no rows, or could not be loaded.
NoAuxiliaryTable == IsNull(input_csv) \/ Val(input_csv) = <<>> \/ ~csv_get_ok

\* Lines 123-137 have run.
Merged == pc # "scrape_rmp"

(* C16: when input.csv is missing, empty or fails to load, the merge is a
   pass-through: every fragment keeps the id it was extracted with (null
   stays null), the number of rows is unchanged and no exception leaves
   scrape_professor_ratings_table. *)
C16_PassThroughWithoutCsv ==
    (Merged /\ NoAuxiliaryTable) =>
        /\ ~raised
        /\ Len(df) = Len(APP_PROCESSED_PDFS)
        /\ \A i \in 1..Len(APP_PROCESSED_PDFS) :
              /\ df[i].filename = APP_PROCESSED_PDFS[i].filename
              /\ df[i].rmp_id = APP_PROCESSED_PDFS[i].rmp_id

\* input.csv maps the course of a fragment to an id, its load fails, and the
\* fragments keep their ids, a null one included.
C16_Witness ==
    /\ Merged
    /\ ~csv_get_ok
    /\ input_csv = Some(<<[course_code |-> T_CS101, rmp_id |-> Some(2)]>>)
    /\ Len(APP_PROCESSED_PDFS) = 2
    /\ APP_PROCESSED_PDFS[1].course_code = T_CS101
    /\ APP_PROCESSED_PDFS[1].rmp_id = None
    /\ APP_PROCESSED_PDFS[2].rmp_id = Some(1)
    /\ df[1].rmp_id = None
    /\ df[2].rmp_id = Some(1)

(***************************************************************************)
(* The PDF batch with failing documents.                                   *)
(***************************************************************************)
\* The k-th staged file that is a PDF and does not fail, in stage order.
NthRead(k) == CHOOSE i \in ReadFiles : Cardinality({j \in ReadFiles : j <= i}) = k

(* C18: one bad document never aborts the batch: whichever staged files fail
   (the GET raises, the file is not there locally, an exception while it is
   processed), process_pdfs_from_snowflake returns exactly one fragment for
   each PDF file that did not fail, in stage order, and none for the failed
   files and the files that are no PDF. *)
C18_BadDocumentSkipped ==
    Processed =>
        /\ ~raised
        /\ Len(returned) = Cardinality(ReadFiles)
        /\ \A k \in 1..Len(returned) : returned[k] = FragmentFor(NthRead(k))
        /\ APP_PROCESSED_PDFS = returned

\* The first file fails while it is read, the second is processed.
C18_Witness ==
    /\ Processed
    /\ Len(stage_files) = 2
    /\ stage_files[1] = StagedFile(N_plain, B_report, "read")
    /\ stage_files[2] = StagedFile(N_complete, B_report, "none")
    /\ Len(returned) = 1
    /\ returned[1].filename = N_complete
    /\ returned[1].course_name = T_Intro

(***************************************************************************)
(* app_data_pipeline.py: the tasks of the DAG from process_pdfs to         *)
(* run_standardization, over at most MaxRuns scheduled runs.  Before the   *)
(* first run none of the pipeline's tables exists.                         *)
(***************************************************************************)
MaxRuns == 2

\* What the stage holds at the start of a run: nothing, the document of the
\* end-to-end scenario, a document whose name carries no marker, or two
\* documents of the same course.
PipelineStages ==
    {<<>>,
     <<StagedFile(N_marked_first, B_rating_only, "none")>>,
     <<StagedFile(N_plain, B_no_text, "none")>>,
     <<StagedFile(N_complete, B_report, "none"),
       StagedFile(N_marked_first, B_rating_only, "none")>>}

\* input.csv with the id of the course CS101.
PipelineCsvs == {None, Some(<<[course_code |-> T_CS101, rmp_id |-> Some(7777)]>>)}

InitPipeline ==
    /\ stage_files \in PipelineStages
    /\ input_csv \in PipelineCsvs
    /\ run = 1
    /\ pc = "process_pdfs"
    /\ APP_PROCESSED_PDFS = <<>>
    /\ df = <<>>
    /\ RMP_ENRICHED_DATA = <<>>
    /\ enriched_exists = FALSE
    /\ MY_WASHU_COURSES_WITH_RATINGS = <<>>
    /\ WASHU_COURSES_STANDARDIZED = {}
    /\ row_rank_1 = {}
    /\ previous_standardized = {}
    /\ restandardized = None
    /\ std_runs = 0
    /\ raised = FALSE
    /\ returned = <<>>
    /\ csv_get_ok = TRUE
    /\ to_fetch = <<>>
    /\ ratings_by_id = <<>>
    /\ fetch_log = <<>>
    /\ response = None
    /\ rating_info = None
    /\ SIGNAL_TABLE = {}
    /\ pokes = 0
    /\ open_connections = {}

\* schedule='@daily': the next run starts after the last task of a run, or
\* after the task that failed; the stage may hold other files by then.
start_next_run ==
    /\ pc \in {"insert_signal_final", "failed"}
    /\ run < MaxRuns
    /\ run' = run + 1
    /\ stage_files' \in PipelineStages
    /\ input_csv' \in PipelineCsvs
    /\ raised' = FALSE
    /\ pc' = "process_pdfs"
    /\ UNCHANGED <<APP_PROCESSED_PDFS, df, RMP_ENRICHED_DATA,
                   MY_WASHU_COURSES_WITH_RATINGS, WASHU_COURSES_STANDARDIZED,
                   row_rank_1, previous_standardized, restandardized, std_runs>>
    /\ UNCHANGED <<returned, enriched_exists, csv_get_ok, loop_vars, page_vars>>
    /\ UNCHANGED <<dag_vars, open_connections>>

NextPipeline ==
    \/ process_pdfs_from_snowflake
    \/ scrape_professor_ratings_table
    \/ create_target_table
    \/ clean_and_store_data
    \/ run_standardization
    \/ start_next_run

SpecPipeline == InitPipeline /\ [][NextPipeline]_vars

\* The scrape stage of the run is over and no row of its frame has an id
\* (the frame is empty when the stage held no document).
EmptyBatch ==
    /\ pc \in {"create_target_table", "load_enriched_data", "run_standardization",
               "insert_signal_final", "failed"}
    /\ \A i \in 1..Len(df) : IsNull(df[i].rmp_id)

(* C17: a batch-level failure ends in an empty result, not an exception: in
   a run where the stage holds no documents, or where no fragment has an
   external id after the merge, process_pdfs, scrape_rmp, load_enriched_data
   and run_standardization complete without raising and the canonical table
   the run produces has no rows. *)
C17_EmptyBatchEmptyResult ==
    EmptyBatch =>
        /\ ~raised
        /\ pc # "failed"
        /\ pc = "insert_signal_final" => Canonical = {}

\* The rating page of the end-to-end scenario was fetched for the one
\* document "$$Jane Doe$$.SP2025.L24.CS101.5.pdf" with the id 7777 from
\* input.csv, and the run has standardized.
ScenarioRun ==
    /\ run = 1
    /\ Standardized
    /\ stage_files = <<StagedFile(N_marked_first, B_rating_only, "none")>>
    /\ input_csv = Some(<<[course_code |-> T_CS101, rmp_id |-> Some(7777)]>>)
    /\ Len(RMP_ENRICHED_DATA) = 1
    /\ RMP_ENRICHED_DATA[1].RMP_ID = Some(7777)
    /\ RMP_ENRICHED_DATA[1].OVERALL_RATING = Some(T_4_5)
    /\ RMP_ENRICHED_DATA[1].SCRAPED_OVERALL_RATING = Some(T_3_9)
    /\ RMP_ENRICHED_DATA[1].WOULD_TAKE_AGAIN = Some(T_75)
    /\ RMP_ENRICHED_DATA[1].DIFFICULTY = Some(T_2_1)
    /\ RMP_ENRICHED_DATA[1].TAGS = Some(T_helpful)

(* C19: end to end: the document "$$Jane Doe$$.SP2025.L24.CS101.5.pdf" with
   the text "Overall Rating: 4.50" and the external id 7777, and a rating
   page with overall "3.9", would_take_again "75%", difficulty "2.1" and the
   tag "helpful", give exactly one canonical record, with external rating
   3.9, normalized rating 5.35, would_take_again 0.75 and difficulty 2.1. *)
C19_EndToEnd ==
    ScenarioRun =>
        /\ Cardinality(Canonical) = 1
        /\ \A c \in Canonical :
              /\ c.SCRAPED_OVERALL_RATING = Some(39 * 1000)
              /\ c.NORMALIZED_RMP_RATING = Some(535 * 100)
              /\ c.WOULD_TAKE_AGAIN = Some(75 * 100)
              /\ c.DIFFICULTY = Some(21 * 1000)

(***************************************************************************)
(* The positions the rating page is read at.                               *)
(***************************************************************************)
\* A text without its '%' characters, wherever they stand.
RECURSIVE WithoutPercents(_)
WithoutPercents(s) ==
    IF s = <<>> THEN <<>>
    ELSE IF Head(s) = "%" THEN WithoutPercents(Tail(s))
    ELSE <<Head(s)>> \o WithoutPercents(Tail(s))

\* A reply of status 200 that parses, for a non-null id.
PageRead ==
    /\ ScrapeReturned
    /\ response.reply.kind = "page"
    /\ response.reply.status = 200
    /\ NotNull(response.rmp_id)

(* C21: rating page parsing is positional: with at least two feedback-number
   nodes, would_take_again is the stripped text of the first with every '%'
   removed (the number is not divided by 100) and difficulty is the stripped
   text of the second; with fewer than two such nodes, exactly one included,
   both are null; the overall rating is the stripped text of the first
   numeric-rating node whatever the feedback nodes are. *)
C21_PositionalParsing ==
    PageRead =>
        LET page == response.reply.page
            feedback == page.feedback_nodes
            info == Val(rating_info)
        IN  /\ NotNull(rating_info)
            /\ Len(feedback) >= 2
                  => /\ info.would_take_again = Some(WithoutPercents(Strip(feedback[1])))
                     /\ info.difficulty = Some(Strip(feedback[2]))
            /\ Len(feedback) < 2
                  => /\ IsNull(info.would_take_again)
                     /\ IsNull(info.difficulty)
            /\ page.rating_nodes # <<>>
                  => info.scraped_overall_rating = Some(Strip(page.rating_nodes[1]))
            /\ page.rating_nodes = <<>> => IsNull(info.scraped_overall_rating)

\* A page whose first feedback node is " 75%% ": "75" is kept as text, and
\* the second node is the difficulty.
C21_Witness ==
    /\ PageRead
    /\ response.reply.page.rating_nodes = <<T_NA, T_3_9_padded>>
    /\ response.reply.page.feedback_nodes = <<T_75_percents, T_2_1>>
    /\ Val(rating_info).would_take_again = Some(T_75)
    /\ Val(rating_info).difficulty = Some(T_2_1)
    /\ Val(rating_info).scraped_overall_rating = Some(T_NA)

(***************************************************************************)
(* The cardinality of the merge with input.csv.                            *)
(***************************************************************************)
\* Rows of input.csv for the course CS101 as written, padded and in lower
\* case, with and without an id.
BroadcastCsvRows ==
    {[course_code |-> T_CS101_padded, rmp_id |-> Some(2)],
     [course_code |-> T_CS101, rmp_id |-> None],
     [course_code |-> T_cs101, rmp_id |-> Some(2)]}

InitBroadcast ==
    /\ APP_PROCESSED_PDFS \in ProcessedTables
    /\ input_csv \in {None} \cup {Some(rows) : rows \in SeqsUpTo(BroadcastCsvRows, MaxCsv)}
    /\ df = <<>>
    /\ RMP_ENRICHED_DATA = <<>>
    /\ MY_WASHU_COURSES_WITH_RATINGS = <<>>
    /\ WASHU_COURSES_STANDARDIZED = {}
    /\ row_rank_1 = {}
    /\ previous_standardized = {}
    /\ restandardized = None
    /\ std_runs = 0
    /\ raised = FALSE
    /\ pc = "scrape_rmp"
    /\ stage_files = <<>>
    /\ returned = <<>>
    /\ run = 1
    /\ enriched_exists = FALSE
    /\ csv_get_ok = TRUE
    /\ to_fetch = <<>>
    /\ ratings_by_id = <<>>
    /\ fetch_log = <<>>
    /\ response = None
    /\ rating_info = None
    /\ SIGNAL_TABLE = {}
    /\ pokes = 0
    /\ open_connections = {}

NextBroadcast == scrape_professor_ratings_table

SpecBroadcast == InitBroadcast /\ [][NextBroadcast]_vars

\* The auxiliary rows the stage loaded.
AuxiliaryRows == load_input_csv_from_stage(input_csv, csv_get_ok)

\* The auxiliary rows whose trimmed course code is that of the i-th fragment.
AuxiliaryMatches(i) ==
    LET SameCode(c) == Strip(c.course_code) = Strip(APP_PROCESSED_PDFS[i].course_code)
    IN  SelectSeq(AuxiliaryRows, SameCode)

\* The rows of the merged frame that come from the i-th fragment.
RowsFrom(i) ==
    LET FromFragment(r) == r.filename = APP_PROCESSED_PDFS[i].filename
    IN  SelectSeq(df, FromFragment)

(* C22: the merge matches on exact, case-sensitive equality of the trimmed
   course codes and broadcasts: a fragment whose trimmed course code is that
   of k >= 1 auxiliary rows gives exactly k rows of the merged frame, one for
   each matching auxiliary row and carrying that row's id when it has one; a
   fragment with no matching auxiliary row gives exactly one row; no fragment
   is dropped. *)
C22_MergeBroadcasts ==
    MergeDone =>
        \A i \in 1..Len(APP_PROCESSED_PDFS) :
            LET hits == AuxiliaryMatches(i)
                rows == RowsFrom(i)
            IN  /\ Len(rows) = IF hits = <<>> THEN 1 ELSE Len(hits)
                /\ \A k \in 1..Len(hits) :
                      NotNull(hits[k].rmp_id) => rows[k].rmp_id = hits[k].rmp_id
                /\ \A k \in 1..Len(rows) :
                      rows[k].course_code \in {APP_PROCESSED_PDFS[i].course_code,
                                              Strip(APP_PROCESSED_PDFS[i].course_code)}

\* CS101 matches " CS101 " and "CS101" of input.csv and gives two rows; EE202
\* matches nothing and gives one.
C22_Witness ==
    /\ MergeDone
    /\ Len(APP_PROCESSED_PDFS) = 2
    /\ APP_PROCESSED_PDFS[1].course_code = T_CS101
    /\ APP_PROCESSED_PDFS[2].course_code = T_EE202
    /\ csv_get_ok
    /\ input_csv = Some(<<[course_code |-> T_CS101_padded, rmp_id |-> Some(2)],
                          [course_code |-> T_CS101, rmp_id |-> None]>>)
    /\ Len(RowsFrom(1)) = 2
    /\ Len(RowsFrom(2)) = 1
    /\ Len(df) = 3

(***************************************************************************)
(* What a run's canonical table is made from.                              *)
(***************************************************************************)
\* The canonical record c has the professor, course, semester and section of
\* the fragment f.
DerivedFrom(c, f) ==
    /\ c.FULL_PROFESSOR_NAME = Some(Strip(f.professor))
    /\ c.COURSE_CODE = Some(Strip(f.course_code))
    /\ c.SEMESTER = Some(Strip(f.semester))
    /\ c.SECTION = Some(Strip(f.section))

(* C23: after any sequence of runs, the canonical table a run writes holds
   only records derived from the documents process_pdfs processed in that
   same run: rows an earlier run left in APP_PROCESSED_PDFS or
   RMP_ENRICHED_DATA never reach it, also when the run's scrape stage
   returned early. *)
C23_NoStaleRows ==
    Standardized =>
        \A c \in Canonical : \E i \in 1..Len(returned) : DerivedFrom(c, returned[i])

(***************************************************************************)
(* The rating join: whose ratings a written row carries.                   *)
(***************************************************************************)
\* The four rating cells of a written row.
RatingFields(r) ==
    <<r.SCRAPED_OVERALL_RATING, r.WOULD_TAKE_AGAIN, r.DIFFICULTY, r.TAGS>>

\* The four rating cells as written for a fetched rating_info: each text as
\* it was fetched, the tags joined by commas.
FieldsOf(info) ==
    <<info.scraped_overall_rating, info.would_take_again, info.difficulty,
      Some(JoinTags(info.tags))>>

\* The fetches of the loop that gave a rating_info for the id of the i-th row.
OwnFetches(i) ==
    IF IsNull(df[i].rmp_id) THEN {}
    ELSE {k \in FetchOf(rmp_id_clean(Val(df[i].rmp_id))) : NotNull(fetch_log[k].info)}

(* C26: in the rating join every written row's rating fields
   (scraped_overall_rating, would_take_again, difficulty, tags) are either all
   null or exactly the values of the rating_info fetched for the row's own
   id; a row never carries what was fetched for another id, and two rows with
   the same id whose fetch succeeded carry the same rating fields. *)
C26_OwnRatingsOnly ==
    Written =>
        /\ \A i \in 1..Len(df) :
              IF OwnFetches(i) = {}
              THEN RatingFields(RMP_ENRICHED_DATA[i]) = <<None, None, None, None>>
              ELSE \A k \in OwnFetches(i) :
                      RatingFields(RMP_ENRICHED_DATA[i]) = FieldsOf(Val(fetch_log[k].info))
        /\ \A i, j \in 1..Len(df) :
              (df[i].rmp_id = df[j].rmp_id /\ OwnFetches(i) # {})
                  => RatingFields(RMP_ENRICHED_DATA[i]) = RatingFields(RMP_ENRICHED_DATA[j])

\* Two rows with different ids: the fetch for the first row's id gave the
\* rating page, the fetch for the second row's id gave a page without nodes,
\* and each row carries what was fetched for its own id.
C26_Witness ==
    /\ Written
    /\ Len(df) = 2
    /\ NotNull(df[1].rmp_id) /\ NotNull(df[2].rmp_id)
    /\ df[1].rmp_id # df[2].rmp_id
    /\ OwnFetches(1) # {} /\ OwnFetches(2) # {}
    /\ RatingFields(RMP_ENRICHED_DATA[1]) = <<Some(T_3_9), Some(T_75), Some(T_2_1), Some(T_helpful)>>
    /\ RatingFields(RMP_ENRICHED_DATA[2]) = <<None, None, None, Some(<<>>)>>

(***************************************************************************)
(* app_data_pipeline.py: the DAG with its signal tasks.  A run goes through *)
(* create_signal_table >> insert_dummy_signal >> check_app_stg_signal >>   *)
(* process_pdfs >> scrape_rmp >> create_target_table >>                    *)
(* load_enriched_data >> run_standardization >> insert_signal_final; a     *)
(* task starts when the task before it has succeeded, and a task that      *)
(* failed on its tries ends the run.                                       *)
(***************************************************************************)
table_vars == <<APP_PROCESSED_PDFS, input_csv, df, RMP_ENRICHED_DATA,
                MY_WASHU_COURSES_WITH_RATINGS, WASHU_COURSES_STANDARDIZED,
                row_rank_1, previous_standardized, restandardized, std_runs>>

\* Line 203 and line 204: the tasks in the order of their dependencies.
DagOrder ==
    <<"create_signal_table", "insert_dummy_signal", "check_app_stg_signal",
      "process_pdfs", "scrape_rmp", "create_target_table", "load_enriched_data",
      "run_standardization", "insert_signal_final">>

\* The tasks that are an SQLExecuteQueryOperator.
SqlOperatorTasks ==
    {"create_signal_table", "insert_dummy_signal", "create_target_table",
     "run_standardization", "insert_signal_final"}

\* A row of SIGNAL_TABLE; CURRENT_TIMESTAMP() is given by the run it is taken in.
Signal(table_name, status, timestamp) ==
    [TABLE_NAME |-> table_name, STATUS |-> status, TIMESTAMP |-> timestamp]

\* timeout=600 and poke_interval=30: the pokes the sensor makes before it
\* times out.
SensorPokes == 600 \div 30

\* Task create_signal_table: CREATE OR REPLACE TABLE SIGNAL_TABLE.
create_signal_table ==
    /\ pc = "create_signal_table"
    /\ SIGNAL_TABLE' = {}
    /\ raised' = FALSE
    /\ pc' = "insert_dummy_signal"
    /\ UNCHANGED <<table_vars, stage_vars, enriched_exists, csv_get_ok, loop_vars,
                   page_vars, pokes, open_connections>>

\* The task going on without inserting a row.
insert_dummy_signal_without_row ==
    /\ pc = "insert_dummy_signal"
    /\ raised' = FALSE
    /\ pc' = "check_app_stg_signal"
    /\ UNCHANGED <<table_vars, stage_vars, enriched_exists, csv_get_ok, loop_vars,
                   page_vars, dag_vars, open_connections>>

\* Task insert_dummy_signal: INSERT INTO SIGNAL_TABLE ('APP_STG', 'success', now).
insert_dummy_signal ==
    /\ pc = "insert_dummy_signal"
    /\ SIGNAL_TABLE' = SIGNAL_TABLE \cup {Signal("APP_STG", "success", run)}
    /\ raised' = FALSE
    /\ pc' = "check_app_stg_signal"
    /\ UNCHANGED <<table_vars, stage_vars, enriched_exists, csv_get_ok, loop_vars,
                   page_vars, pokes, open_connections>>

\* SELECT 1 FROM SIGNAL_TABLE WHERE TABLE_NAME = 'APP_STG' AND STATUS = 'success'
\* returns a row.
AppStgSignalled ==
    \E r \in SIGNAL_TABLE : r.TABLE_NAME = "APP_STG" /\ r.STATUS = "success"

\* Task check_app_stg_signal, one poke of the SqlSensor: it succeeds when the
\* query returns a row, is rescheduled when it does not, and fails when the
\* timeout is reached.
check_app_stg_signal ==
    /\ pc = "check_app_stg_signal"
    /\ pokes' = pokes + 1
    /\ IF AppStgSignalled
       THEN /\ pc' = "process_pdfs"
            /\ raised' = FALSE
       ELSE IF pokes + 1 >= SensorPokes
       THEN /\ pc' = "failed"
            /\ raised' = TRUE
       ELSE UNCHANGED <<pc, raised>>
    /\ UNCHANGED <<table_vars, stage_vars, enriched_exists, csv_get_ok, loop_vars,
                   page_vars, SIGNAL_TABLE, open_connections>>

\* Task insert_signal_final:
\* INSERT INTO SIGNAL_TABLE ('WASHU_COURSES_STANDARDIZED', 'success', now).
insert_signal_final ==
    /\ pc = "insert_signal_final"
    /\ SIGNAL_TABLE' =
          SIGNAL_TABLE \cup {Signal("WASHU_COURSES_STANDARDIZED", "success", run)}
    /\ raised' = FALSE
    /\ pc' = "success"
    /\ UNCHANGED <<table_vars, stage_vars, enriched_exists, csv_get_ok, loop_vars,
                   page_vars, pokes, open_connections>>

\* The statement of an SQLExecuteQueryOperator task is refused by the
\* warehouse on the first try and on the retry (retries: 1): the task fails,
\* its statement has changed nothing, and no later task of the run starts.
sql_task_fails ==
    /\ pc \in SqlOperatorTasks
    /\ raised' = TRUE
    /\ pc' = "failed"
    /\ UNCHANGED <<table_vars, stage_vars, enriched_exists, csv_get_ok, loop_vars,
                   page_vars, dag_vars, open_connections>>

\* schedule='@daily': the next run starts when the run before it has ended.
start_dag_run ==
    /\ pc \in {"success", "failed"}
    /\ run < MaxRuns
    /\ run' = run + 1
    /\ pokes' = 0
    /\ stage_files' \in PipelineStages
    /\ input_csv' \in PipelineCsvs
    /\ raised' = FALSE
    /\ pc' = "create_signal_table"
    /\ UNCHANGED <<APP_PROCESSED_PDFS, df, RMP_ENRICHED_DATA,
                   MY_WASHU_COURSES_WITH_RATINGS, WASHU_COURSES_STANDARDIZED,
                   row_rank_1, previous_standardized, restandardized, std_runs>>
    /\ UNCHANGED <<returned, enriched_exists, csv_get_ok, loop_vars, page_vars,
                   SIGNAL_TABLE, open_connections>>

InitDag ==
    /\ stage_files \in PipelineStages
    /\ input_csv \in PipelineCsvs
    /\ run = 1
    /\ pc = "create_signal_table"
    /\ SIGNAL_TABLE = {}
    /\ pokes = 0
    /\ open_connections = {}
    /\ APP_PROCESSED_PDFS = <<>>
    /\ df = <<>>
    /\ RMP_ENRICHED_DATA = <<>>
    /\ enriched_exists = FALSE
    /\ MY_WASHU_COURSES_WITH_RATINGS = <<>>
    /\ WASHU_COURSES_STANDARDIZED = {}
    /\ row_rank_1 = {}
    /\ previous_standardized = {}
    /\ restandardized = None
    /\ std_runs = 0
    /\ raised = FALSE
    /\ returned = <<>>
    /\ csv_get_ok = TRUE
    /\ to_fetch = <<>>
    /\ ratings_by_id = <<>>
    /\ fetch_log = <<>>
    /\ response = None
    /\ rating_info = None

NextDag ==
    \/ create_signal_table
    \/ insert_dummy_signal
    \/ check_app_stg_signal
    \/ process_pdfs_from_snowflake
    \/ scrape_professor_ratings_table
    \/ create_target_table
    \/ clean_and_store_data
    \/ run_standardization
    \/ insert_signal_final
    \/ sql_task_fails
    \/ start_dag_run

SpecDag == InitDag /\ [][NextDag]_vars

\* The run has ended: its last task succeeded or one of its tasks failed.
RunOver == pc \in {"success", "failed"}

\* The rows that signal the canonical table.
FinalSignals ==
    {r \in SIGNAL_TABLE :
        r.TABLE_NAME = "WASHU_COURSES_STANDARDIZED" /\ r.STATUS = "success"}

\* The position of a task in the order of the DAG.
PositionOf(task) == CHOOSE k \in 1..Len(DagOrder) : DagOrder[k] = task

\* The tasks run in the order of the DAG: a task is followed by the next one
\* of DagOrder or by the end of the run, and a run starts at the first task.
DagOrderKept ==
    [][pc' # pc =>
          \/ pc \in {"success", "failed"} /\ pc' = DagOrder[1]
          \/ pc \notin {"success", "failed"} /\ pc' = "failed"
          \/ pc = DagOrder[Len(DagOrder)] /\ pc' = "success"
          \/ /\ pc \notin {"success", "failed"}
             /\ pc # DagOrder[Len(DagOrder)]
             /\ pc' = DagOrder[PositionOf(pc) + 1]]_vars

(* C24: in every DAG run the tasks run in the one order of the DAG, each
   after the task before it succeeded, so that when a run has ended
   SIGNAL_TABLE holds a ('WASHU_COURSES_STANDARDIZED', 'success') row only if
   run_standardization succeeded in that run (the row was inserted in that
   run and the run succeeded), and never when an earlier task failed. *)
C24_FinalSignalOnlyAfterSuccess ==
    RunOver =>
        (FinalSignals # {} =>
            /\ pc = "success"
            /\ \A r \in FinalSignals : r.TIMESTAMP = run)

(***************************************************************************)
(* The DAG with its scheduler: a task whose upstream task has succeeded is *)
(* run, so the sensor that is due is poked.                                *)
(***************************************************************************)
SpecDagLive == InitDag /\ [][NextDag]_vars /\ WF_vars(check_app_stg_signal)

\* The sensor of the run is due: create_signal_table and insert_dummy_signal
\* of the run have succeeded.
SensorDue == pc = "check_app_stg_signal"

(* C25: whenever check_app_stg_signal is evaluated in a run, SIGNAL_TABLE
   holds the ('APP_STG', 'success') row that insert_dummy_signal of the same
   run inserted, so the sensor succeeds on its first poke; process_pdfs is
   eventually started in every run whose first two SQL tasks succeeded, with
   no other producer of the signal. *)
C25_SensorPassesOnFirstPoke ==
    /\ [](SensorDue => (Signal("APP_STG", "success", run) \in SIGNAL_TABLE /\ pokes = 0))
    /\ [](pokes <= 1)
    /\ (SensorDue ~> pc = "process_pdfs")

\* In the second run the sensor has passed on its first poke, on the row the
\* second run inserted; the first run's rows are gone.
C25_Witness ==
    /\ pc = "process_pdfs"
    /\ run = 2
    /\ pokes = 1
    /\ SIGNAL_TABLE = {Signal("APP_STG", "success", 2)}

(***************************************************************************)
(* The stages' connections when a statement of the scrape stage raises.    *)
(***************************************************************************)
\* The statements of scrape_professor_ratings_table that go to the warehouse
\* outside a try block: the SELECT of the input table, the CREATE OR REPLACE
\* of the output table and the INSERT of the rows.
ScrapeStatements == {"select", "create", "insert"}

\* scrape_professor_ratings_table when one of its statements raises: the
\* exception leaves the function from where it is raised.  After the CREATE
\* the output table is there, without rows.
scrape_professor_ratings_table_raises ==
    /\ pc = "scrape_rmp"
    /\ \E statement \in ScrapeStatements, get_ok \in BOOLEAN :
        LET merged == IF APP_PROCESSED_PDFS = <<>> THEN <<>>
                      ELSE MergeWithCsv(APP_PROCESSED_PDFS,
                                        load_input_csv_from_stage(input_csv, get_ok))
        IN  /\ statement # "select" => unique_ids(merged) # {}
            /\ IF statement = "select"
               THEN UNCHANGED <<df, csv_get_ok, RMP_ENRICHED_DATA, enriched_exists>>
               ELSE /\ df' = merged
                    /\ csv_get_ok' = get_ok
                    /\ IF statement = "create"
                       THEN UNCHANGED <<RMP_ENRICHED_DATA, enriched_exists>>
                       ELSE /\ RMP_ENRICHED_DATA' = <<>>
                            /\ enriched_exists' = TRUE
    /\ open_connections' = AfterExit(open_connections, "scrape_rmp", "raise")
    /\ raised' = TRUE
    /\ pc' = "failed"
    /\ UNCHANGED <<APP_PROCESSED_PDFS, input_csv, MY_WASHU_COURSES_WITH_RATINGS,
                   WASHU_COURSES_STANDARDIZED, row_rank_1, previous_standardized,
                   restandardized, std_runs>>
    /\ UNCHANGED <<stage_vars, loop_vars, page_vars, dag_vars>>

NextConnections ==
    \/ process_pdfs_from_snowflake
    \/ scrape_professor_ratings_table
    \/ scrape_professor_ratings_table_raises
    \/ create_target_table
    \/ clean_and_store_data
    \/ run_standardization
    \/ start_next_run

SpecConnections == InitPipeline /\ [][NextConnections]_vars

(* C27: every Snowflake connection and cursor a stage opens
   (process_pdfs_from_snowflake, scrape_professor_ratings_table,
   clean_and_store_data) is closed when the stage has returned or raised, on
   every path: early returns and exceptions raised by a query or by the table
   write included. *)
C27_ConnectionsClosed == open_connections = {}

====
